---- MODULE Spec2Model ----
(***************************************************************************)
(* Task distribution / workload balancing engine of policy-persistency      *)
(* (TaskDistributionService and the TaskService integration layer).         *)
(*                                                                          *)
(* Numbers.  The code computes utilizationPercent and the hybrid score in   *)
(* IEEE doubles.  The model keeps them as exact fractions [num, den] and    *)
(* compares by cross multiplication; for the rosters and task counts used   *)
(* here the double computation and the exact one order every pair of        *)
(* members the same way: equal quotients round to equal doubles, and no     *)
(* two unequal scores of these rosters are closer than the rounding error.  *)
(*                                                                          *)
(* Strings.  A task type is a sequence of one-character strings so that     *)
(* String.prototype.includes is a real substring search.                    *)
(***************************************************************************)
EXTENDS Integers, Sequences, FiniteSets, TLC

(* ---------------------------------------------------------------------- *)
(* Bounds                                                                  *)
(* ---------------------------------------------------------------------- *)
\* most round-robin calls followed in one behaviour
MaxRR == 6
\* a small open-task count every member can start with
FewTasks == 2
\* up to this capacity a member can also start one task short of capacity
SmallCapacity == 10
\* the smallest open-task count of which a fifth is one task or more
MinMovable == 5

\* the assignTask calls tracked or pending at a time
MaxAssign == 5

(* ---------------------------------------------------------------------- *)
(* JavaScript values                                                       *)
(* ---------------------------------------------------------------------- *)
\* the value undefined (a missing field, an out-of-range array read)
Undefined == "undefined"
\* a TypeError thrown out of the call (property read on undefined)
TypeError == "TypeError"
\* the error the specification asks for on an empty roster; the code has none
EmptyRosterError == "EmptyRosterError"
\* a task without a type field
NoType == <<Undefined>>
\* a task without a premium field
NoPremium == -1

\* s.includes(sub) on strings held as character sequences
includes(s, sub) ==
    \E i \in 1..(Len(s) - Len(sub) + 1) :
        \A k \in 1..Len(sub) : s[i + k - 1] = sub[k]

\* exact fractions
Frac(n, d) == [num |-> n, den |-> d]
FracLt(a, b) == a.num * b.den < b.num * a.den
FracLe(a, b) == a.num * b.den <= b.num * a.den
FracEq(a, b) == a.num * b.den = b.num * a.den
\* a fraction against an integer
FracLtInt(a, n) == a.num < n * a.den
FracGtInt(a, n) == a.num > n * a.den

\* Array.prototype.sort with a consistent comparator: stable, so that
\* elements the comparator calls equal keep their relative order.
\* before(a, b) is "the comparator returns a negative number".
RECURSIVE InsertSorted(_, _, _)
InsertSorted(before(_, _), x, s) ==
    IF s = <<>> THEN <<x>>
    ELSE IF before(x, Head(s)) THEN <<x>> \o s
    ELSE <<Head(s)>> \o InsertSorted(before, x, Tail(s))

RECURSIVE sort(_, _)
sort(before(_, _), s) ==
    \* left to right, each element placed after the ones it does not precede
    IF s = <<>> THEN <<>>
    ELSE InsertSorted(before, s[Len(s)],
                      sort(before, SubSeq(s, 1, Len(s) - 1)))

\* [...new Set(s)]: first occurrences, in order
RECURSIVE unique(_)
unique(s) ==
    IF s = <<>> THEN <<>>
    ELSE LET init == unique(SubSeq(s, 1, Len(s) - 1))
             last == s[Len(s)]
         IN IF \E i \in 1..Len(init) : init[i] = last THEN init
            ELSE Append(init, last)

RECURSIVE flatten(_)
flatten(ss) == IF ss = <<>> THEN <<>> ELSE Head(ss) \o flatten(Tail(ss))

Range(s) == {s[i] : i \in 1..Len(s)}
\* variant: the second argument, whatever the first
Max_Second(a, b) == b

Max(a, b) == IF a >= b THEN a ELSE b

(* ---------------------------------------------------------------------- *)
(* Strings of the program                                                  *)
(* ---------------------------------------------------------------------- *)
S_nsf == <<"n", "s", "f">>
S_cancellation == <<"c", "a", "n", "c", "e", "l", "l", "a", "t", "i", "o", "n">>
S_retention == <<"r", "e", "t", "e", "n", "t", "i", "o", "n">>
S_payment == <<"p", "a", "y", "m", "e", "n", "t">>
S_commercial == <<"c", "o", "m", "m", "e", "r", "c", "i", "a", "l">>
S_recovery == <<"r", "e", "c", "o", "v", "e", "r", "y">>
S_nsf_followup == <<"n", "s", "f", "_", "f", "o", "l", "l", "o", "w", "u",
    "p">>
S_urgent_nsf_follow_up == <<"u", "r", "g", "e", "n", "t", "_", "n", "s",
    "f", "_", "f", "o", "l", "l", "o", "w", "_", "u", "p">>
S_early_cancellation_retention == <<"e", "a", "r", "l", "y", "_", "c", "a",
    "n", "c", "e", "l", "l", "a", "t", "i", "o", "n", "_", "r", "e", "t",
    "e", "n", "t", "i", "o", "n">>
S_premium_recovery == <<"p", "r", "e", "m", "i", "u", "m", "_", "r", "e",
    "c", "o", "v", "e", "r", "y">>
S_high_value == <<"h", "i", "g", "h", "-", "v", "a", "l", "u", "e">>
S_payment_issues == <<"p", "a", "y", "m", "e", "n", "t", "-", "i", "s", "s",
    "u", "e", "s">>

(* ---------------------------------------------------------------------- *)
(* Roster configuration                                                    *)
(* ---------------------------------------------------------------------- *)
\* the team the repository ships
RETENTION_TEAM ==
    << [name |-> "Mark Vallejo",
        specialties |-> {"high-value", "commercial"}, capacity |-> 15],
       [name |-> "Monica Archuleta",
        specialties |-> {"nsf", "payment-issues"}, capacity |-> 20],
       [name |-> "Stephen Brown",
        specialties |-> {"cancellation", "retention"}, capacity |-> 18] >>

\* a configuration with no member
EMPTY_TEAM == <<>>

\* the two-member roster of the specification's worked example
EXAMPLE_TEAM ==
    << [name |-> "A", specialties |-> {"nsf"}, capacity |-> 10],
       [name |-> "B", specialties |-> {}, capacity |-> 10] >>

\* a low-capacity configuration in which the high-value specialist is not
\* the member called "Mark Vallejo"
SMALL_TEAM ==
    << [name |-> "Mark Vallejo", specialties |-> {"commercial"}, capacity |-> 2],
       [name |-> "Dana Ortiz",
        specialties |-> {"high-value", "nsf"}, capacity |-> 2],
       [name |-> "Eli Park", specialties |-> {"cancellation"}, capacity |-> 1] >>

Rosters == {RETENTION_TEAM, EMPTY_TEAM, EXAMPLE_TEAM, SMALL_TEAM}

distributionStrategies ==
    [ROUND_ROBIN |-> "round_robin", LOAD_BALANCED |-> "load_balanced",
     SPECIALTY_FIRST |-> "specialty_first",
     PRIORITY_WEIGHTED |-> "priority_weighted", HYBRID |-> "hybrid"]

StrategyValues == {distributionStrategies[k] : k \in DOMAIN distributionStrategies}

(* ---------------------------------------------------------------------- *)
(* State                                                                   *)
(* ---------------------------------------------------------------------- *)
VARIABLES
    roster,             \* RETENTION_TEAM as configured, in key order
    currentStrategy,    \* TaskDistributionService.currentStrategy
    lastAssignedIndex,  \* TaskDistributionService.lastAssignedIndex
    existingTasks,      \* the retention_tasks rows the callers read
    lastCall,           \* the most recent call of the service and its outcome
    rrHistory,          \* what the round-robin calls returned, oldest first
    pinned,             \* an earlier call kept for comparison
    notificationHistory,  \* TaskService.notificationHistory, oldest first
    inFlight            \* the assignTask calls waiting for the task rows

vars == <<roster, currentStrategy, lastAssignedIndex, existingTasks,
          lastCall, rrHistory, pinned, notificationHistory, inFlight>>

Object_keys == [i \in 1..Len(roster) |-> roster[i].name]
MemberNames == Range(Object_keys)
Member(name) == roster[CHOOSE i \in 1..Len(roster) : roster[i].name = name]

(* ---------------------------------------------------------------------- *)
(* Workload analyzer                                                       *)
(* ---------------------------------------------------------------------- *)
RECURSIVE SumPremium(_)
SumPremium(ts) ==
    \* reduce((sum, task) => sum + (task.premium || 0), 0)
    IF ts = <<>> THEN 0
    ELSE (IF Head(ts).premium = NoPremium THEN 0 ELSE Head(ts).premium)
         + SumPremium(Tail(ts))

CountPriority(ts, p) == Len(SelectSeq(ts, LAMBDA t : t.priority = p))

\* variant: rows of every status are counted
analyzeCurrentWorkload_AnyStatus(tasks) ==
    [member \in MemberNames |->
        LET memberTasks ==
                SelectSeq(tasks, LAMBDA t : t.assignedTo = member)
            capacity == Member(member).capacity
            assigned == Len(memberTasks)
            totalPremium == SumPremium(memberTasks)
        IN [name |-> member,
            capacity |-> capacity,
            assigned |-> assigned,
            utilizationPercent |-> Frac(assigned * 100, capacity),
            available |-> Max(0, capacity - assigned),
            tasks |-> [high |-> CountPriority(memberTasks, "high"),
                       medium |-> CountPriority(memberTasks, "medium"),
                       low |-> CountPriority(memberTasks, "low"),
                       total |-> Len(memberTasks)],
            avgPremium |-> IF Len(memberTasks) > 0
                           THEN Frac(totalPremium, Len(memberTasks))
                           ELSE Frac(0, 1),
            totalPremium |-> totalPremium,
            specialties |-> Member(member).specialties]]

analyzeCurrentWorkload(tasks) ==
    [member \in MemberNames |->
        LET memberTasks ==
                SelectSeq(tasks, LAMBDA t : t.assignedTo = member
                                             /\ t.status = "open")
            capacity == Member(member).capacity
            assigned == Len(memberTasks)
            totalPremium == SumPremium(memberTasks)
        IN [name |-> member,
            capacity |-> capacity,
            assigned |-> assigned,
            utilizationPercent |-> Frac(assigned * 100, capacity),
            available |-> Max(0, capacity - assigned),
            tasks |-> [high |-> CountPriority(memberTasks, "high"),
                       medium |-> CountPriority(memberTasks, "medium"),
                       low |-> CountPriority(memberTasks, "low"),
                       total |-> Len(memberTasks)],
            avgPremium |-> IF Len(memberTasks) > 0
                           THEN Frac(totalPremium, Len(memberTasks))
                           ELSE Frac(0, 1),
            totalPremium |-> totalPremium,
            specialties |-> Member(member).specialties]]

\* Object.values(workloadAnalysis): the entries in roster key order
Object_values(workloadAnalysis) ==
    [i \in 1..Len(roster) |-> workloadAnalysis[roster[i].name]]

\* (a, b) => a.utilizationPercent - b.utilizationPercent is negative
ByUtilization(a, b) == FracLt(a.utilizationPercent, b.utilizationPercent)

(* ---------------------------------------------------------------------- *)
(* Specialty matcher                                                       *)
(* ---------------------------------------------------------------------- *)
\* task.premium >= n; a missing premium compares false
premiumAtLeast(task, n) == task.premium # NoPremium /\ task.premium >= n

\* variant: the type is compared for equality, not searched
memberPushes_ExactType(task, data) ==
    LET rule(cond) == IF cond THEN <<data.name>> ELSE <<>>
    IN    rule(task.type = S_nsf /\ "nsf" \in data.specialties)
       \o rule(task.type = S_cancellation
                /\ "cancellation" \in data.specialties)
       \o rule(task.type = S_retention /\ "retention" \in data.specialties)
       \o rule(premiumAtLeast(task, 5000) /\ "high-value" \in data.specialties)
       \o rule(task.type = S_payment
                /\ "payment-issues" \in data.specialties)
       \o rule(task.type = S_commercial
                /\ "commercial" \in data.specialties)

\* the pushes one roster entry makes, one per rule that holds, in code order
memberPushes(task, data) ==
    LET rule(cond) == IF cond THEN <<data.name>> ELSE <<>>
    IN    rule(includes(task.type, S_nsf) /\ "nsf" \in data.specialties)
       \o rule(includes(task.type, S_cancellation)
                /\ "cancellation" \in data.specialties)
       \o rule(includes(task.type, S_retention)
                /\ "retention" \in data.specialties)
       \o rule(premiumAtLeast(task, 5000) /\ "high-value" \in data.specialties)
       \o rule(includes(task.type, S_payment)
                /\ "payment-issues" \in data.specialties)
       \o rule(includes(task.type, S_commercial)
                /\ "commercial" \in data.specialties)

\* task.type.includes(...) on a task without type throws in the first
\* iteration over the roster; an empty roster never reads task.type
findSpecialtyMatches(task) ==
    IF roster # <<>> /\ task.type = NoType
    THEN [threw |-> TRUE, value |-> <<>>]
    ELSE [threw |-> FALSE,
          value |-> unique(flatten([i \in 1..Len(roster) |->
                                       memberPushes(task, roster[i])]))]

(* ---------------------------------------------------------------------- *)
(* Assignment strategies                                                   *)
(* ---------------------------------------------------------------------- *)
\* variant: the counter is advanced before it is read
roundRobinAssignment_PreIncrement(task) ==
    LET teamMembers == Object_keys
    IN [ret |-> IF Len(teamMembers) = 0 THEN Undefined
                ELSE teamMembers[((lastAssignedIndex + 1) % Len(teamMembers))
                                 + 1],
        lastAssignedIndex |-> lastAssignedIndex + 1]

\* variant: the counter is read and left as it is
roundRobinAssignment_NoIncrement(task) ==
    LET teamMembers == Object_keys
    IN [ret |-> IF Len(teamMembers) = 0 THEN Undefined
                ELSE teamMembers[(lastAssignedIndex % Len(teamMembers)) + 1],
        lastAssignedIndex |-> lastAssignedIndex]

\* returns the member and the counter after the call
roundRobinAssignment(task) ==
    LET teamMembers == Object_keys
    IN [ret |-> IF Len(teamMembers) = 0
                THEN Undefined   \* n % 0 is NaN, teamMembers[NaN] undefined
                ELSE teamMembers[(lastAssignedIndex % Len(teamMembers)) + 1],
        lastAssignedIndex |-> lastAssignedIndex + 1]

\* variant: the members under capacity, left in roster order
getAvailableMembers_Unsorted(workloadAnalysis) ==
    SelectSeq(Object_values(workloadAnalysis),
              LAMBDA m : FracLtInt(m.utilizationPercent, 100))

getAvailableMembers(workloadAnalysis) ==
    sort(ByUtilization,
         SelectSeq(Object_values(workloadAnalysis),
                   LAMBDA m : FracLtInt(m.utilizationPercent, 100)))

getLeastLoadedMember(workloadAnalysis) ==
    LET sorted == sort(ByUtilization, Object_values(workloadAnalysis))
    IN IF sorted = <<>> THEN TypeError   \* undefined.name
       ELSE sorted[1].name

getLeastLoadedFromList(memberList, workloadAnalysis) ==
    LET sorted == sort(ByUtilization,
                       [i \in 1..Len(memberList) |->
                           workloadAnalysis[memberList[i]]])
    IN IF sorted = <<>> THEN TypeError ELSE sorted[1].name

\* variant: no fallback when nobody is under capacity
loadBalancedAssignment_NoFallback(task, tasks) ==
    LET workloadAnalysis == analyzeCurrentWorkload(tasks)
        availableMembers == getAvailableMembers(workloadAnalysis)
    IN IF Len(availableMembers) = 0 THEN TypeError
       ELSE availableMembers[1].name

loadBalancedAssignment(task, tasks) ==
    LET workloadAnalysis == analyzeCurrentWorkload(tasks)
        availableMembers == getAvailableMembers(workloadAnalysis)
    IN IF Len(availableMembers) = 0
       THEN getLeastLoadedMember(workloadAnalysis)
       ELSE availableMembers[1].name

\* variant: specialists are taken whatever their utilization
specialtyFirstAssignment_AnyLoad(task, tasks) ==
    LET workloadAnalysis == analyzeCurrentWorkload(tasks)
        specialtyMatches == findSpecialtyMatches(task)
    IN IF specialtyMatches.threw THEN TypeError
       ELSE IF Len(specialtyMatches.value) > 0
       THEN getLeastLoadedFromList(specialtyMatches.value, workloadAnalysis)
       ELSE loadBalancedAssignment(task, tasks)

specialtyFirstAssignment(task, tasks) ==
    LET workloadAnalysis == analyzeCurrentWorkload(tasks)
        specialtyMatches == findSpecialtyMatches(task)
        availableSpecialists ==
            SelectSeq(specialtyMatches.value,
                      LAMBDA member :
                          FracLtInt(workloadAnalysis[member].utilizationPercent,
                                    100))
    IN IF specialtyMatches.threw THEN TypeError
       ELSE IF Len(availableSpecialists) > 0
       THEN getLeastLoadedFromList(availableSpecialists, workloadAnalysis)
       ELSE loadBalancedAssignment(task, tasks)

\* variant: a low priority weighs nothing
getPriorityMultiplier_LowZero(priority) ==
    CASE priority = "high" -> 15
      [] priority = "medium" -> 10
      [] priority = "low" -> 0
      [] OTHER -> 10

\* ten times the multiplier of the code (1.5, 1.0, 0.8, default 1.0)
getPriorityMultiplier(priority) ==
    CASE priority = "high" -> 15
      [] priority = "medium" -> 10
      [] priority = "low" -> 8
      [] OTHER -> 10

\* variant: the premium bonus needs more than 5000
calculateMemberScores_StrictPremium(task, workloadAnalysis) ==
    [member \in MemberNames |->
        LET workload == workloadAnalysis[member]
            isSpecialist == member \in Range(findSpecialtyMatches(task).value)
        IN Max(0, workload.available
                  + (IF isSpecialist THEN 10 ELSE 0)
                  + (IF task.priority = "high" THEN 5 ELSE 0)
                  + (IF premiumAtLeast(task, 5001) THEN 3 ELSE 0))]

calculateMemberScores(task, workloadAnalysis) ==
    [member \in MemberNames |->
        LET workload == workloadAnalysis[member]
            isSpecialist == member \in Range(findSpecialtyMatches(task).value)
        IN Max(0, workload.available
                  + (IF isSpecialist THEN 10 ELSE 0)
                  + (IF task.priority = "high" THEN 5 ELSE 0)
                  + (IF premiumAtLeast(task, 5000) THEN 3 ELSE 0))]

\* Object.entries(scores): <<name, score>> in roster key order
Object_entries(scores) ==
    [i \in 1..Len(roster) |-> <<roster[i].name, scores[roster[i].name]>>]

priorityWeightedAssignment(task, tasks) ==
    LET workloadAnalysis == analyzeCurrentWorkload(tasks)
        scores == calculateMemberScores(task, workloadAnalysis)
        sortedMembers == sort(LAMBDA a, b : b[2] - a[2] < 0,
                              Object_entries(scores))
    IN IF findSpecialtyMatches(task).threw THEN TypeError
       ELSE IF sortedMembers = <<>> THEN Undefined
       ELSE sortedMembers[1][1]

\* the high-value policy bonus of the hybrid score
highValueBonus(member, task) ==
    IF member = "Mark Vallejo" /\ premiumAtLeast(task, 5000) THEN 30 ELSE 0

\* variant: the second penalty, above 150%, is left out
hybridScore_OnePenalty(member, task, workloadAnalysis, specialtyMatches) ==
    LET workload == workloadAnalysis[member]
        util == workload.utilizationPercent
        isSpecialist == member \in Range(specialtyMatches)
        priorityMultiplier == getPriorityMultiplier(task.priority)
        base == Max(0, 100 * util.den - util.num)
        specialty == IF isSpecialist THEN 50 * util.den ELSE 0
        highValue == highValueBonus(member, task) * util.den
        overloaded == IF FracGtInt(util, 100) THEN 5 ELSE 10
    IN Frac((base + specialty + highValue) * priorityMultiplier
                * overloaded * 10,
            util.den)

\* the hybrid score of one member, times 1000, as a fraction over capacity
hybridScore(member, task, workloadAnalysis, specialtyMatches) ==
    LET workload == workloadAnalysis[member]
        util == workload.utilizationPercent
        isSpecialist == member \in Range(specialtyMatches)
        priorityMultiplier == getPriorityMultiplier(task.priority)
        base == Max(0, 100 * util.den - util.num)
        specialty == IF isSpecialist THEN 50 * util.den ELSE 0
        highValue == highValueBonus(member, task) * util.den
        overloaded == IF FracGtInt(util, 100) THEN 5 ELSE 10
        severe == IF FracGtInt(util, 150) THEN 3 ELSE 10
    IN Frac((base + specialty + highValue) * priorityMultiplier
                * overloaded * severe,
            util.den)

\* the hybridScores object built by hybridAssignment
hybridScores(task, tasks) ==
    LET workloadAnalysis == analyzeCurrentWorkload(tasks)
        specialtyMatches == findSpecialtyMatches(task)
    IN [member \in MemberNames |->
           hybridScore(member, task, workloadAnalysis, specialtyMatches.value)]

\* variant: the scan for the best score starts at the rotation counter
hybridAssignment_Rotating(task, tasks) ==
    LET specialtyMatches == findSpecialtyMatches(task)
        entries == Object_entries(hybridScores(task, tasks))
        rotated == [i \in 1..Len(entries) |->
                       entries[((i - 1 + lastAssignedIndex) % Len(entries))
                               + 1]]
        sorted == sort(LAMBDA a, b : FracLt(b[2], a[2]), rotated)
    IN IF specialtyMatches.threw THEN TypeError
       ELSE IF sorted = <<>> THEN Undefined
       ELSE sorted[1][1]

\* variant: the lowest score first
hybridAssignment_Lowest(task, tasks) ==
    LET specialtyMatches == findSpecialtyMatches(task)
        sorted == sort(LAMBDA a, b : FracLt(a[2], b[2]),
                       Object_entries(hybridScores(task, tasks)))
    IN IF specialtyMatches.threw THEN TypeError
       ELSE IF sorted = <<>> THEN Undefined
       ELSE sorted[1][1]

hybridAssignment(task, tasks) ==
    LET specialtyMatches == findSpecialtyMatches(task)
        sorted == sort(LAMBDA a, b : FracLt(b[2], a[2]),
                       Object_entries(hybridScores(task, tasks)))
    IN IF specialtyMatches.threw THEN TypeError
       ELSE IF sorted = <<>> THEN Undefined
       ELSE sorted[1][1]

\* the strategy argument left out
Null == "null"

\* variant: every call advances the round-robin counter
distributeTask_CountsEveryCall(task, tasks, strategy) ==
    LET activeStrategy == IF strategy = Null THEN currentStrategy ELSE strategy
        count(ret) ==
            [ret |-> ret, lastAssignedIndex |-> lastAssignedIndex + 1]
    IN CASE activeStrategy = distributionStrategies.ROUND_ROBIN ->
              roundRobinAssignment(task)
         [] activeStrategy = distributionStrategies.LOAD_BALANCED ->
              count(loadBalancedAssignment(task, tasks))
         [] activeStrategy = distributionStrategies.SPECIALTY_FIRST ->
              count(specialtyFirstAssignment(task, tasks))
         [] activeStrategy = distributionStrategies.PRIORITY_WEIGHTED ->
              count(priorityWeightedAssignment(task, tasks))
         [] OTHER -> count(hybridAssignment(task, tasks))

distributeTask(task, tasks, strategy) ==
    LET activeStrategy == IF strategy = Null THEN currentStrategy ELSE strategy
        keep(ret) == [ret |-> ret, lastAssignedIndex |-> lastAssignedIndex]
    IN CASE activeStrategy = distributionStrategies.ROUND_ROBIN ->
              roundRobinAssignment(task)
         [] activeStrategy = distributionStrategies.LOAD_BALANCED ->
              keep(loadBalancedAssignment(task, tasks))
         [] activeStrategy = distributionStrategies.SPECIALTY_FIRST ->
              keep(specialtyFirstAssignment(task, tasks))
         [] activeStrategy = distributionStrategies.PRIORITY_WEIGHTED ->
              keep(priorityWeightedAssignment(task, tasks))
         [] activeStrategy = distributionStrategies.HYBRID ->
              keep(hybridAssignment(task, tasks))
         [] OTHER -> keep(hybridAssignment(task, tasks))

\* variant: any value is accepted
setDistributionStrategy_Unchecked(strategy) ==
    [ret |-> TRUE, currentStrategy |-> strategy]

setDistributionStrategy(strategy) ==
    IF strategy \in StrategyValues
    THEN [ret |-> TRUE, currentStrategy |-> strategy]
    ELSE [ret |-> FALSE, currentStrategy |-> currentStrategy]

(* ---------------------------------------------------------------------- *)
(* Redistribution                                                          *)
(* ---------------------------------------------------------------------- *)
\* maxImbalancePercent = 50 when the argument is left out
DefaultMaxImbalance == 50

\* priorityOrder = { low: 1, medium: 2, high: 3 }
priorityOrder(p) ==
    CASE p = "low" -> 1 [] p = "medium" -> 2 [] p = "high" -> 3

\* variant: the highest priority first
ByPriority_Descending(a, b) ==
    priorityOrder(a.priority) > priorityOrder(b.priority)

\* priorityOrder[a.priority] - priorityOrder[b.priority] is negative
ByPriority(a, b) == priorityOrder(a.priority) < priorityOrder(b.priority)

\* b.utilizationPercent - a.utilizationPercent is negative
ByUtilizationDesc(a, b) == FracLt(b.utilizationPercent, a.utilizationPercent)

\* the names of a list of analysis entries; the lists of the code hold
\* references to the entries of workloadAnalysis, and only their names
\* are read after the lists are built
NamesOf(entries) == [i \in 1..Len(entries) |-> entries[i].name]

\* variant: rounded up
tasksToMove_Ceil(assigned) == (assigned * 2 + 9) \div 10

\* variant: every task of the member
tasksToMove_All(assigned) == assigned

\* Math.floor(assigned * 0.2)
tasksToMove(assigned) == (assigned * 2) \div 10

\* variant: the most underloaded member, specialist or not
findBestRedistributionTarget_First(task, underloadedMembers, workloadAnalysis) ==
    IF Len(underloadedMembers) > 0 THEN underloadedMembers[1] ELSE Null

\* workloadAnalysis is received and never read
findBestRedistributionTarget(task, underloadedMembers, workloadAnalysis) ==
    LET specialtyMatches == findSpecialtyMatches(task).value
        underloadedSpecialists ==
            SelectSeq(underloadedMembers, LAMBDA member :
                                 member \in Range(specialtyMatches))
    IN IF Len(underloadedSpecialists) > 0 THEN underloadedSpecialists[1]
       ELSE IF Len(underloadedMembers) > 0 THEN underloadedMembers[1]
       ELSE Null

\* sortedTasks.slice(0, tasksToMove).forEach: acc holds the redistributions
\* pushed so far, the in-memory workloadAnalysis and the caller's list
RECURSIVE moveTasks(_, _, _, _)
moveTasks(tasks, from, underloaded, acc) ==
    IF tasks = <<>> THEN acc
    ELSE LET task == Head(tasks)
             bestTarget ==
                 findBestRedistributionTarget(task, underloaded,
                                              acc.workloadAnalysis)
             pushed ==
                 [acc EXCEPT
                    !.redistributions =
                        Append(@, [taskId |-> task.id, from |-> from,
                                   to |-> bestTarget,
                                   reason |-> "Load balancing"]),
                    !.workloadAnalysis =
                        [@ EXCEPT ![from].assigned = @ - 1,
                                  ![bestTarget].assigned = @ + 1]]
         IN moveTasks(Tail(tasks), from, underloaded,
                      IF bestTarget # Null THEN pushed ELSE acc)

\* overloaded.forEach; the sort is applied to the list filter returned, the
\* caller's list keeps its order
RECURSIVE forEachOverloaded(_, _, _, _)
forEachOverloaded(overloaded, underloaded, tasks, acc) ==
    IF overloaded = <<>> THEN acc
    ELSE LET overloadedMember == Head(overloaded)
             memberTasks ==
                 SelectSeq(tasks, LAMBDA t : t.assignedTo = overloadedMember
                                              /\ t.status = "open")
             sortedTasks == sort(ByPriority, memberTasks)
             n == tasksToMove(acc.workloadAnalysis[overloadedMember].assigned)
             slice == SubSeq(sortedTasks, 1,
                             IF n < Len(sortedTasks) THEN n
                             ELSE Len(sortedTasks))
         IN forEachOverloaded(Tail(overloaded), underloaded, tasks,
                              moveTasks(slice, overloadedMember, underloaded,
                                        acc))

\* variant: a member exactly at a threshold is taken as well
redistributeTasks_AtThreshold(tasks, maxImbalancePercent) ==
    LET workloadAnalysis == analyzeCurrentWorkload(tasks)
        overloaded ==
            sort(ByUtilizationDesc,
                 SelectSeq(Object_values(workloadAnalysis), LAMBDA member :
                     ~FracLtInt(member.utilizationPercent,
                               100 + maxImbalancePercent)))
        underloaded ==
            sort(ByUtilization,
                 SelectSeq(Object_values(workloadAnalysis), LAMBDA member :
                     ~FracGtInt(member.utilizationPercent,
                                100 - maxImbalancePercent)))
    IN forEachOverloaded(NamesOf(overloaded), NamesOf(underloaded), tasks,
                         [redistributions |-> <<>>,
                          workloadAnalysis |-> workloadAnalysis,
                          existingTasks |-> tasks])

\* the returned redistributions, with the workloadAnalysis the call leaves
\* behind in memory and the caller's list as the call leaves it
redistributeTasks(tasks, maxImbalancePercent) ==
    LET workloadAnalysis == analyzeCurrentWorkload(tasks)
        overloaded ==
            sort(ByUtilizationDesc,
                 SelectSeq(Object_values(workloadAnalysis), LAMBDA member :
                     FracGtInt(member.utilizationPercent,
                               100 + maxImbalancePercent)))
        underloaded ==
            sort(ByUtilization,
                 SelectSeq(Object_values(workloadAnalysis), LAMBDA member :
                     FracLtInt(member.utilizationPercent,
                               100 - maxImbalancePercent)))
    IN forEachOverloaded(NamesOf(overloaded), NamesOf(underloaded), tasks,
                         [redistributions |-> <<>>,
                          workloadAnalysis |-> workloadAnalysis,
                          existingTasks |-> tasks])

(* ---------------------------------------------------------------------- *)
(* Reporting                                                              *)
(* ---------------------------------------------------------------------- *)
RECURSIVE GCD(_, _)
GCD(a, b) == IF b = 0 THEN a ELSE GCD(b, a % b)

LCM(a, b) == (a \div GCD(a, b)) * b

RECURSIVE Sum(_)
Sum(s) == IF s = <<>> THEN 0 ELSE Head(s) + Sum(Tail(s))

RECURSIVE CommonDenominator(_)
CommonDenominator(fracs) ==
    IF fracs = <<>> THEN 1
    ELSE LCM(Head(fracs).den, CommonDenominator(Tail(fracs)))

\* 0 / 0
NaN == [nan |-> TRUE, zero |-> FALSE, deviationSquared |-> Frac(0, 1)]

\* variant: the variance of a sample, over one less than the count
calculateBalanceScore_Sample(workloadAnalysis) ==
    LET utilizations ==
            [i \in 1..Len(roster) |->
                Object_values(workloadAnalysis)[i].utilizationPercent]
        n == Len(utilizations)
        d == CommonDenominator(utilizations)
        u == [i \in 1..n |->
                 (utilizations[i].num \div 100) * (d \div utilizations[i].den)]
        \* avg = Sum(u) / (n * d) in units of 100
        squares == [i \in 1..n |-> (n * u[i] - Sum(u)) * (n * u[i] - Sum(u))]
        \* variance = Sum(squares) / (n * n * d * d) / n in units of 100 x 100
        variance == Frac(Sum(squares), n * n * (n - 1) * d * d)
    IN IF n = 0 THEN NaN
       ELSE [nan |-> FALSE,
             zero |-> ~FracLtInt(variance, 1),
             deviationSquared |-> variance]

\* Math.max(0, 100 - standardDeviation) with standardDeviation the square
\* root of variance: given by (standardDeviation / 100) squared, an exact
\* fraction, and by whether the floor at 0 applies. utilizationPercent is
\* assigned * 100 over capacity; avg and the squares are computed over the
\* common denominator of the utilizations, the squares in units of 100 x 100
calculateBalanceScore(workloadAnalysis) ==
    LET utilizations ==
            [i \in 1..Len(roster) |->
                Object_values(workloadAnalysis)[i].utilizationPercent]
        n == Len(utilizations)
        d == CommonDenominator(utilizations)
        u == [i \in 1..n |->
                 (utilizations[i].num \div 100) * (d \div utilizations[i].den)]
        \* avg = Sum(u) / (n * d) in units of 100
        squares == [i \in 1..n |-> (n * u[i] - Sum(u)) * (n * u[i] - Sum(u))]
        \* variance = Sum(squares) / (n * n * d * d) / n in units of 100 x 100
        variance == Frac(Sum(squares), n * n * n * d * d)
    IN IF n = 0 THEN NaN
       ELSE [nan |-> FALSE,
             zero |-> ~FracLtInt(variance, 1),
             deviationSquared |-> variance]

\* variant: a member at exactly 150% is critical as well
generateRecommendations_Critical150(workloadAnalysis) ==
    flatten([i \in 1..Len(roster) |->
        LET member == Object_values(workloadAnalysis)[i]
            entry(type, priority) ==
                <<[type |-> type, member |-> member.name,
                   priority |-> priority]>>
        IN IF ~FracLtInt(member.utilizationPercent, 150)
           THEN entry("overload_critical", "high")
           ELSE IF FracGtInt(member.utilizationPercent, 100)
           THEN entry("overload_warning", "medium")
           ELSE IF FracLtInt(member.utilizationPercent, 50)
           THEN entry("underutilized", "low")
           ELSE <<>>])

\* the recommendations in roster order, without their message text
generateRecommendations(workloadAnalysis) ==
    flatten([i \in 1..Len(roster) |->
        LET member == Object_values(workloadAnalysis)[i]
            entry(type, priority) ==
                <<[type |-> type, member |-> member.name,
                   priority |-> priority]>>
        IN IF FracGtInt(member.utilizationPercent, 150)
           THEN entry("overload_critical", "high")
           ELSE IF FracGtInt(member.utilizationPercent, 100)
           THEN entry("overload_warning", "medium")
           ELSE IF FracLtInt(member.utilizationPercent, 50)
           THEN entry("underutilized", "low")
           ELSE <<>>])

\* the sum of the utilizations over the number of members; 0 / 0 without
\* members
averageUtilization(workloadAnalysis) ==
    LET utilizations ==
            [i \in 1..Len(roster) |->
                Object_values(workloadAnalysis)[i].utilizationPercent]
        d == CommonDenominator(utilizations)
    IN Frac(Sum([i \in 1..Len(utilizations) |->
                    utilizations[i].num * (d \div utilizations[i].den)]),
            Len(utilizations) * d)

\* the rows with every returned move carried out
RECURSIVE applyRedistributions(_, _)
applyRedistributions(tasks, redistributions) ==
    IF redistributions = <<>> THEN tasks
    ELSE applyRedistributions(
             [i \in 1..Len(tasks) |->
                 IF tasks[i].id = Head(redistributions).taskId
                 THEN [tasks[i] EXCEPT !.assignedTo = Head(redistributions).to]
                 ELSE tasks[i]],
             Tail(redistributions))

\* variant: the report carries its suggestions out on the caller's list
generateDistributionReport_Applying(tasks) ==
    LET workloadAnalysis == analyzeCurrentWorkload(tasks)
        redistributionSuggestions ==
            redistributeTasks(tasks, DefaultMaxImbalance)
    IN [report |->
           [strategy |-> currentStrategy,
            teamSummary |->
                [totalTasks |->
                     Len(SelectSeq(tasks, LAMBDA t : t.status = "open")),
                 averageUtilization |-> averageUtilization(workloadAnalysis),
                 balanceScore |-> calculateBalanceScore(workloadAnalysis)],
            members |-> workloadAnalysis,
            redistributionSuggestions |->
                redistributionSuggestions.redistributions,
            recommendations |-> generateRecommendations(workloadAnalysis)],
        existingTasks |->
            applyRedistributions(redistributionSuggestions.existingTasks,
                                 redistributionSuggestions.redistributions)]

\* the report without its timestamp, and the caller's list as the call
\* leaves it
generateDistributionReport(tasks) ==
    LET workloadAnalysis == analyzeCurrentWorkload(tasks)
        redistributionSuggestions ==
            redistributeTasks(tasks, DefaultMaxImbalance)
    IN [report |->
           [strategy |-> currentStrategy,
            teamSummary |->
                [totalTasks |->
                     Len(SelectSeq(tasks, LAMBDA t : t.status = "open")),
                 averageUtilization |-> averageUtilization(workloadAnalysis),
                 balanceScore |-> calculateBalanceScore(workloadAnalysis)],
            members |-> workloadAnalysis,
            redistributionSuggestions |->
                redistributionSuggestions.redistributions,
            recommendations |-> generateRecommendations(workloadAnalysis)],
        existingTasks |-> redistributionSuggestions.existingTasks]


(* ---------------------------------------------------------------------- *)
(* TaskService: the integration layer                                      *)
(* ---------------------------------------------------------------------- *)
\* the characters of a specialty of the roster
specialtyText(specialty) ==
    CASE specialty = "nsf" -> S_nsf
      [] specialty = "commercial" -> S_commercial
      [] specialty = "cancellation" -> S_cancellation
      [] specialty = "retention" -> S_retention
      [] specialty = "high-value" -> S_high_value
      [] specialty = "payment-issues" -> S_payment_issues

\* memberData.specialties.includes(taskType): equality with an element
specialtiesInclude(memberData, taskType) ==
    \E specialty \in memberData.specialties :
        specialtyText(specialty) = taskType

\* the rows getExistingTasks selects: status = "open"
getExistingTasks(table) == SelectSeq(table, LAMBDA row : row.status = "open")

\* variant: the type only, whatever the premium
fallbackAssignTask_TypeOnly(taskType, premium) ==
    LET RECURSIVE loop(_, _)
        loop(i, bestMatch) ==
            IF i > Len(roster) THEN bestMatch
            ELSE IF specialtiesInclude(roster[i], taskType)
            THEN roster[i].name
            ELSE loop(i + 1, bestMatch)
    IN loop(1, IF roster = <<>> THEN Undefined ELSE roster[1].name)

\* bestMatch starts as teamMembers[0]; the loop stops at the first member
\* whose specialties include the type or, from a premium of 5000,
\* "high-value"
fallbackAssignTask(taskType, premium) ==
    LET RECURSIVE loop(_, _)
        loop(i, bestMatch) ==
            IF i > Len(roster) THEN bestMatch
            ELSE IF specialtiesInclude(roster[i], taskType)
            THEN roster[i].name
            ELSE IF premium >= 5000 /\ "high-value" \in roster[i].specialties
            THEN roster[i].name
            ELSE loop(i + 1, bestMatch)
    IN loop(1, IF roster = <<>> THEN Undefined ELSE roster[1].name)

\* assignTask after getExistingTasks has answered: distributeTask with the
\* current strategy on the mock task, the assignment tracked and returned;
\* when the distribution throws, the fallback's answer
assignTask(call, tasks) ==
    LET mockTask == [type |-> call.taskType, premium |-> call.premium,
                     priority |-> call.priority]
        out == distributeTask(mockTask, tasks, Null)
    IN IF out.ret = TypeError
       THEN [ret |-> fallbackAssignTask(call.taskType, call.premium),
             threw |-> TRUE,
             lastAssignedIndex |-> out.lastAssignedIndex,
             tracked |-> <<>>]
       ELSE [ret |-> out.ret,
             threw |-> FALSE,
             lastAssignedIndex |-> out.lastAssignedIndex,
             tracked |-> <<[assignedTo |-> out.ret,
                            taskType |-> call.taskType,
                            premium |-> call.premium,
                            priority |-> call.priority]>>]

\* notificationHistory.set(Date.now(), entry): a new entry, or the entry of
\* the same millisecond replaced
historySet(history, tracked, sameMillisecond) ==
    IF tracked = <<>> THEN history
    ELSE IF sameMillisecond /\ history # <<>>
    THEN SubSeq(history, 1, Len(history) - 1) \o tracked
    ELSE history \o tracked

(* ---------------------------------------------------------------------- *)
(* Inputs                                                                  *)
(* ---------------------------------------------------------------------- *)
TaskTypes == {S_nsf, S_cancellation, S_commercial, S_recovery}
Priorities == {"high", "medium", "low"}
Premiums == {0, 4999, 5000}

WellFormedTasks ==
    [type : TaskTypes, priority : Priorities, premium : Premiums]

\* task descriptors with exactly one field left out
MalformedTasks ==
    [type : {NoType}, priority : Priorities, premium : Premiums]
    \cup [type : TaskTypes, priority : {Undefined}, premium : Premiums]
    \cup [type : TaskTypes, priority : Priorities, premium : {NoPremium}]

TaskInputs == WellFormedTasks \cup MalformedTasks

WellFormed(task) == task \in WellFormedTasks

\* the types the matcher is tried on: the callers' types, the types of the
\* generated tasks, bare rule words, and no type
MatchTypes ==
    TaskTypes \cup {S_nsf_followup, S_urgent_nsf_follow_up,
                    S_early_cancellation_retention, S_premium_recovery,
                    S_payment, S_retention, NoType}

MatchTasks ==
    [type : MatchTypes, priority : {"medium", Undefined},
     premium : Premiums \cup {NoPremium}]

\* the descriptors the callers of the stateful runs submit
MainTasks ==
    {[type |-> S_nsf, priority |-> "high", premium |-> 5000],
     [type |-> S_cancellation, priority |-> "low", premium |-> 0]}

\* the open-task counts a member of the given capacity can start with
Levels(capacity) ==
    {0, capacity, capacity + 1, (3 * capacity) \div 2 + 1}
    \cup (IF capacity <= SmallCapacity THEN {FewTasks, capacity - 1} ELSE {})

TypeCycle == <<S_nsf, S_cancellation, S_recovery>>
PriorityCycle == <<"medium", "low", "high">>

\* the k-th open row of the member at position i, ids unique per snapshot
Row(i, k, name) ==
    [id |-> 100 * i + k,
     type |-> TypeCycle[(k % 3) + 1],
     priority |-> PriorityCycle[((k + i) % 3) + 1],
     premium |-> IF k % 2 = 0 THEN 6000 ELSE 0,
     assignedTo |-> name,
     status |-> "open"]

\* rows that no member's count may include: a closed one and one whose
\* assignee has left the roster
OtherRows(r) ==
    (IF r = <<>> THEN <<>>
     ELSE <<[Row(1, 99, r[1].name) EXCEPT !.status = "completed"]>>)
    \o <<Row(9, 1, "Pat Former")>>

\* the table holding counts[i] open rows for the member at position i
Snapshot(r, counts) ==
    flatten([i \in 1..Len(r) |->
                [k \in 1..counts[i] |-> Row(i, k, r[i].name)]])
    \o OtherRows(r)

RECURSIVE CountVectors(_, _)
CountVectors(choice(_), r) ==
    IF r = <<>> THEN {<<>>}
    ELSE {Append(c, n) : c \in CountVectors(choice, SubSeq(r, 1, Len(r) - 1)),
                         n \in choice(r[Len(r)].capacity)}

Snapshots(r) == {Snapshot(r, c) : c \in CountVectors(Levels, r)}

\* the open-task counts the redistribution runs start from: idle, a few,
\* just under capacity, at capacity, above 150%, and twice the capacity; for
\* small capacities also a single task, a movable fifth and 150% itself
RedistLevels(capacity) ==
    {0, FewTasks, capacity - 1, capacity, (3 * capacity) \div 2 + 1,
     2 * capacity}
    \cup (IF capacity <= SmallCapacity
          THEN {1, MinMovable, (3 * capacity) \div 2}
          ELSE {})

\* the k-th open row of a table the redistribution runs start from: few
\* low-priority rows, so that a fifth of a member's rows spans two priorities
RedistRow(i, k, name) ==
    [Row(i, k, name) EXCEPT
        !.priority = IF k % 7 = 3 THEN "low"
                     ELSE IF k % 2 = 0 THEN "medium" ELSE "high"]

RedistSnapshot(r, counts) ==
    flatten([i \in 1..Len(r) |->
                [k \in 1..counts[i] |-> RedistRow(i, k, r[i].name)]])
    \o OtherRows(r)

RedistSnapshots(r) ==
    {RedistSnapshot(r, c) : c \in CountVectors(RedistLevels, r)}

\* the maxImbalancePercent arguments tried
MaxImbalanceInputs == {0, 25, DefaultMaxImbalance}

\* the tables the stateful runs start from: idle, or a few tasks each
MainLevels(capacity) == {0, FewTasks}
MainSnapshots(r) ==
    {Snapshot(r, c) : c \in {v \in CountVectors(MainLevels, r) :
                                \A i, j \in 1..Len(v) :
                                    (v[i] = 0) = (v[j] = 0)}}

(* ---------------------------------------------------------------------- *)
(* Initial states                                                          *)
(* ---------------------------------------------------------------------- *)
NoCall == [op |-> "none"]

\* the callers of TaskService.assignTask and a caller with no call pending
Callers == {"caller1", "caller2"}
Idle == [pc |-> "idle"]

\* the service as constructed
Fresh ==
    /\ currentStrategy = distributionStrategies.HYBRID
    /\ lastAssignedIndex = 0
    /\ lastCall = NoCall
    /\ rrHistory = <<>>
    /\ pinned = NoCall
    /\ notificationHistory = <<>>
    /\ inFlight = [caller \in Callers |-> Idle]

Init ==
    /\ roster \in Rosters
    /\ existingTasks \in MainSnapshots(roster)
    /\ Fresh

InitPure ==
    /\ roster \in Rosters
    /\ existingTasks \in Snapshots(roster)
    /\ Fresh

(* ---------------------------------------------------------------------- *)
(* Operations                                                              *)
(* ---------------------------------------------------------------------- *)
\* what a strategy argument resolves to
ActiveStrategy(strategy) ==
    IF strategy = Null THEN currentStrategy ELSE strategy

\* the score object the call built on its way, if it built one
ScoresOf(task, tasks, active) ==
    IF findSpecialtyMatches(task).threw THEN <<>>
    ELSE CASE active = distributionStrategies.PRIORITY_WEIGHTED ->
                calculateMemberScores(task, analyzeCurrentWorkload(tasks))
           [] active \in {distributionStrategies.ROUND_ROBIN,
                          distributionStrategies.LOAD_BALANCED,
                          distributionStrategies.SPECIALTY_FIRST} -> <<>>
           [] OTHER -> hybridScores(task, tasks)

\* a caller runs distributeTask(task, existingTasks, strategy)
DistributeTask(task, strategy) ==
    LET out == distributeTask(task, existingTasks, strategy)
        isRR == ActiveStrategy(strategy) = distributionStrategies.ROUND_ROBIN
    IN /\ isRR => lastAssignedIndex < MaxRR
       /\ lastAssignedIndex' = out.lastAssignedIndex
       /\ lastCall' = [op |-> "distributeTask", task |-> task,
                       tasks |-> existingTasks, strategy |-> strategy,
                       active |-> ActiveStrategy(strategy), ret |-> out.ret,
                       scores |-> ScoresOf(task, existingTasks,
                                           ActiveStrategy(strategy))]
       /\ rrHistory' = IF isRR THEN Append(rrHistory, out.ret) ELSE rrHistory
       /\ UNCHANGED <<roster, currentStrategy, existingTasks, pinned,
                      notificationHistory, inFlight>>

\* a caller runs setDistributionStrategy(strategy)
SetDistributionStrategy(strategy) ==
    LET out == setDistributionStrategy(strategy)
    IN /\ currentStrategy' = out.currentStrategy
       /\ lastCall' = [op |-> "setDistributionStrategy",
                       strategy |-> strategy, ret |-> out.ret]
       /\ UNCHANGED <<roster, lastAssignedIndex, existingTasks, rrHistory,
                      pinned, notificationHistory, inFlight>>

\* observer: keep a hybrid or priority-weighted call made on the service
\* as constructed, to compare later calls with
Pin ==
    /\ pinned = NoCall
    /\ lastAssignedIndex = 0
    /\ currentStrategy = distributionStrategies.HYBRID
    /\ lastCall.op = "distributeTask"
    /\ lastCall.active \in {distributionStrategies.HYBRID,
                            distributionStrategies.PRIORITY_WEIGHTED}
    /\ pinned' = [op |-> "distributeTask", task |-> lastCall.task,
                  tasks |-> lastCall.tasks, active |-> lastCall.active,
                  ret |-> lastCall.ret]
    /\ UNCHANGED <<roster, currentStrategy, lastAssignedIndex, existingTasks,
                   lastCall, rrHistory, notificationHistory, inFlight>>

\* a caller runs findSpecialtyMatches(task)
FindSpecialtyMatches(task) ==
    LET out == findSpecialtyMatches(task)
    IN /\ lastCall' = [op |-> "findSpecialtyMatches", task |-> task,
                       threw |-> out.threw, ret |-> out.value]
       /\ UNCHANGED <<roster, currentStrategy, lastAssignedIndex,
                      existingTasks, rrHistory, pinned, notificationHistory,
                      inFlight>>

\* a caller runs analyzeCurrentWorkload(existingTasks)
AnalyzeCurrentWorkload ==
    /\ lastCall' = [op |-> "analyzeCurrentWorkload", tasks |-> existingTasks,
                    ret |-> analyzeCurrentWorkload(existingTasks)]
    /\ UNCHANGED <<roster, currentStrategy, lastAssignedIndex, existingTasks,
                   rrHistory, pinned, notificationHistory, inFlight>>

\* a caller runs redistributeTasks(existingTasks, maxImbalancePercent)
RedistributeTasks(maxImbalancePercent) ==
    LET out == redistributeTasks(existingTasks, maxImbalancePercent)
    IN /\ lastCall' = [op |-> "redistributeTasks", tasks |-> existingTasks,
                       maxImbalancePercent |-> maxImbalancePercent,
                       ret |-> out.redistributions,
                       workloadAnalysis |-> out.workloadAnalysis]
       /\ existingTasks' = out.existingTasks
       /\ UNCHANGED <<roster, currentStrategy, lastAssignedIndex, rrHistory,
                      pinned, notificationHistory, inFlight>>

\* a caller runs generateDistributionReport(existingTasks)
GenerateDistributionReport ==
    LET out == generateDistributionReport(existingTasks)
    IN /\ lastCall' = [op |-> "generateDistributionReport",
                       tasks |-> existingTasks, ret |-> out.report]
       /\ existingTasks' = out.existingTasks
       /\ UNCHANGED <<roster, currentStrategy, lastAssignedIndex, rrHistory,
                      pinned, notificationHistory, inFlight>>

\* the dashboard's Apply button: nothing without tasks; otherwise every
\* move redistributeTasks(tasks) proposes is written to the table, and the
\* tasks are loaded again
ExecuteRedistribution ==
    /\ existingTasks # <<>>
    /\ LET out == redistributeTasks(existingTasks, DefaultMaxImbalance)
       IN /\ existingTasks' =
                 applyRedistributions(out.existingTasks, out.redistributions)
          /\ lastCall' = [op |-> "executeRedistribution",
                          tasks |-> existingTasks,
                          ret |-> out.redistributions]
    /\ UNCHANGED <<roster, currentStrategy, lastAssignedIndex, rrHistory,
                   pinned, notificationHistory, inFlight>>

\* a caller calls assignTask(taskType, premium, priority): the parameters
\* take their defaults and the call waits for getExistingTasks
AssignTaskBegin(caller, taskType, premium, priority) ==
    /\ inFlight[caller] = Idle
    /\ Len(notificationHistory)
         + Cardinality({c \in Callers : inFlight[c] # Idle}) < MaxAssign
    /\ inFlight' = [inFlight EXCEPT ![caller] =
                       [pc |-> "getExistingTasks",
                        taskType |-> taskType,
                        premium |-> IF premium = NoPremium THEN 0
                                    ELSE premium,
                        priority |-> IF priority = Undefined THEN "medium"
                                     ELSE priority]]
    /\ UNCHANGED <<roster, currentStrategy, lastAssignedIndex, existingTasks,
                   lastCall, rrHistory, pinned, notificationHistory>>

\* getExistingTasks answers (the open rows, or none when the query failed)
\* and the caller's assignTask runs to its return
AssignTaskResume(caller, failed, sameMillisecond) ==
    /\ inFlight[caller] # Idle
    /\ LET call == inFlight[caller]
           tasks == IF failed THEN <<>> ELSE getExistingTasks(existingTasks)
           out == assignTask(call, tasks)
           isRR == currentStrategy = distributionStrategies.ROUND_ROBIN
       IN /\ isRR => lastAssignedIndex < MaxRR
          /\ lastAssignedIndex' = out.lastAssignedIndex
          /\ notificationHistory' =
                 historySet(notificationHistory, out.tracked, sameMillisecond)
          /\ rrHistory' = IF isRR THEN Append(rrHistory, out.ret)
                          ELSE rrHistory
          /\ lastCall' = [op |-> "assignTask", caller |-> caller,
                          taskType |-> call.taskType,
                          premium |-> call.premium, tasks |-> tasks,
                          active |-> currentStrategy,
                          observed |-> lastAssignedIndex,
                          threw |-> out.threw, ret |-> out.ret]
    /\ inFlight' = [inFlight EXCEPT ![caller] = Idle]
    /\ UNCHANGED <<roster, currentStrategy, existingTasks, pinned>>

\* a caller runs fallbackAssignTask(taskType, premium)
FallbackAssignTask(taskType, premium) ==
    /\ lastCall' = [op |-> "fallbackAssignTask", taskType |-> taskType,
                    premium |-> IF premium = NoPremium THEN 0 ELSE premium,
                    ret |-> fallbackAssignTask(taskType,
                               IF premium = NoPremium THEN 0 ELSE premium)]
    /\ UNCHANGED <<roster, currentStrategy, lastAssignedIndex, existingTasks,
                   rrHistory, pinned, notificationHistory, inFlight>>

StrategyInputs == StrategyValues \cup {Null}

Next ==
    \/ \E task \in MainTasks, strategy \in StrategyInputs :
           DistributeTask(task, strategy)
    \/ \E strategy \in StrategyValues \cup {"fastest"} :
           SetDistributionStrategy(strategy)
    \/ Pin

Spec == Init /\ [][Next]_vars

\* one call of one strategy on a fresh service
NextPure ==
    /\ lastCall = NoCall
    /\ \E task \in TaskInputs, strategy \in StrategyValues :
           DistributeTask(task, strategy)

SpecPure == InitPure /\ [][NextPure]_vars

\* the types and premiums assignTask and its fallback are called with
AssignTypes == {S_commercial, NoType}
FallbackTypes == {S_commercial, S_nsf, S_urgent_nsf_follow_up, NoType}
AssignPremiums == {NoPremium, 5000}

\* the integration layer up to its first answer: the strategy is set,
\* two callers call assignTask, or the fallback is called directly
NextAssign ==
    /\ lastCall.op \notin {"assignTask", "fallbackAssignTask"}
    /\ \/ \E caller \in Callers, taskType \in AssignTypes,
             premium \in AssignPremiums :
              AssignTaskBegin(caller, taskType, premium, Undefined)
       \/ \E caller \in Callers, failed \in BOOLEAN,
             sameMillisecond \in BOOLEAN :
              AssignTaskResume(caller, failed, sameMillisecond)
       \/ \E taskType \in FallbackTypes, premium \in AssignPremiums :
              FallbackAssignTask(taskType, premium)
       \/ \E strategy \in StrategyValues : SetDistributionStrategy(strategy)

SpecAssign == Init /\ [][NextAssign]_vars

\* the tables the service runs start from: idle, a few tasks each, or the
\* first member at twice its capacity
ServiceSnapshots(r) ==
    MainSnapshots(r)
    \cup {RedistSnapshot(r, [i \in 1..Len(r) |->
                                IF i = 1 THEN 2 * r[i].capacity ELSE 0])}

InitService ==
    /\ roster \in Rosters
    /\ existingTasks \in ServiceSnapshots(roster)
    /\ Fresh

\* the distribution service in use: assignments with any strategy, the
\* strategy switched, and the analyzer, the redistribution and the report
\* called in between
NextService ==
    \/ \E task \in MainTasks, strategy \in StrategyInputs :
           DistributeTask(task, strategy)
    \/ \E strategy \in StrategyValues : SetDistributionStrategy(strategy)
    \/ AnalyzeCurrentWorkload
    \/ RedistributeTasks(DefaultMaxImbalance)
    \/ GenerateDistributionReport

SpecService == InitService /\ [][NextService]_vars

\* concurrent callers of assignTask on the shared service, with the
\* strategy switched to round-robin at any time
NextConcurrent ==
    \/ \E caller \in Callers :
           AssignTaskBegin(caller, S_commercial, NoPremium, Undefined)
    \/ \E caller \in Callers, failed \in BOOLEAN,
          sameMillisecond \in BOOLEAN :
           AssignTaskResume(caller, failed, sameMillisecond)
    \/ SetDistributionStrategy(distributionStrategies.ROUND_ROBIN)

SpecConcurrent == Init /\ [][NextConcurrent]_vars

InitRedist ==
    /\ roster \in Rosters
    /\ existingTasks \in RedistSnapshots(roster)
    /\ Fresh

\* one call of the analyzer, of the redistribution or of the report on a
\* fresh service
NextRedist ==
    /\ lastCall = NoCall
    /\ \/ AnalyzeCurrentWorkload
       \/ \E maxImbalancePercent \in MaxImbalanceInputs :
              RedistributeTasks(maxImbalancePercent)
       \/ GenerateDistributionReport

SpecRedist == InitRedist /\ [][NextRedist]_vars

\* the Apply button pressed again and again
NextRebalance == ExecuteRedistribution

SpecRebalance == InitRedist /\ [][NextRebalance]_vars

\* one call of the matcher on a fresh service
NextMatch ==
    /\ lastCall = NoCall
    /\ \E task \in MatchTasks : FindSpecialtyMatches(task)

SpecMatch == Init /\ [][NextMatch]_vars

(* ---------------------------------------------------------------------- *)
(* Vocabulary of the properties, computed from the rows themselves         *)
(* ---------------------------------------------------------------------- *)
Position(name) == CHOOSE i \in 1..Len(roster) : roster[i].name = name

OpenCount(name, tasks) ==
    Cardinality({i \in 1..Len(tasks) :
                    tasks[i].assignedTo = name /\ tasks[i].status = "open"})

\* utilization in percent, as a fraction
Utilization(name, tasks) ==
    Frac(100 * OpenCount(name, tasks), Member(name).capacity)

UnderCapacity(name, tasks) == FracLtInt(Utilization(name, tasks), 100)

\* name is the least-utilized member of the set, the earliest in roster
\* order among those that tie
LeastUtilizedOf(name, set, tasks) ==
    /\ name \in set
    /\ \A other \in set :
          \/ FracLt(Utilization(name, tasks), Utilization(other, tasks))
          \/ /\ FracEq(Utilization(name, tasks), Utilization(other, tasks))
             /\ Position(name) <= Position(other)

Called == lastCall.op = "distributeTask"
CalledWith(strategy) == Called /\ lastCall.active = strategy

(* ---------------------------------------------------------------------- *)
(* C1                                                                      *)
(* ---------------------------------------------------------------------- *)
\* C1: with a non-empty roster and a well-formed task, distributeTask under
\* each of the five strategies returns a name that is a key of the roster.
C1_ReturnsRosterMember ==
    (Called /\ roster # <<>> /\ WellFormed(lastCall.task))
        => lastCall.ret \in MemberNames

\* specialty-first fell back to load balancing with nobody under capacity
\* and still returned a member
C1_Witness ==
    /\ CalledWith("specialty_first")
    /\ roster = RETENTION_TEAM
    /\ WellFormed(lastCall.task)
    /\ \A m \in MemberNames : ~UnderCapacity(m, lastCall.tasks)
    /\ lastCall.ret \in MemberNames

(* ---------------------------------------------------------------------- *)
(* C2                                                                      *)
(* ---------------------------------------------------------------------- *)
\* C2: with an empty roster every strategy fails with an EmptyRosterError;
\* none returns a value and none fails with another error.
C2_EmptyRosterFails ==
    (Called /\ roster = <<>>) => lastCall.ret = EmptyRosterError

(* ---------------------------------------------------------------------- *)
(* C3                                                                      *)
(* ---------------------------------------------------------------------- *)
\* C3: the counter starts at 0 and the k-th round-robin call (k = 0, 1, ...)
\* on a fresh service returns roster[k mod |roster|]; six calls on a
\* three-member roster return each member twice, in roster order.
C3_RoundRobinRotation ==
    /\ lastAssignedIndex = Len(rrHistory)
    /\ roster # <<>> =>
          \A k \in 0..(Len(rrHistory) - 1) :
              rrHistory[k + 1] = roster[(k % Len(roster)) + 1].name

C3_Witness ==
    /\ roster = RETENTION_TEAM
    /\ rrHistory = <<"Mark Vallejo", "Monica Archuleta", "Stephen Brown",
                     "Mark Vallejo", "Monica Archuleta", "Stephen Brown">>

(* ---------------------------------------------------------------------- *)
(* C4                                                                      *)
(* ---------------------------------------------------------------------- *)
SameInputsAsPinned ==
    /\ pinned # NoCall
    /\ Called
    /\ lastCall.active = pinned.active
    /\ lastCall.task = pinned.task
    /\ lastCall.tasks = pinned.tasks

\* C4: Hybrid and Priority Weighted are deterministic: a call with the
\* roster, snapshot and task of an earlier call returns the member the
\* earlier call returned, whatever round-robin calls and strategy changes
\* happened in between.
C4_Deterministic ==
    SameInputsAsPinned => lastCall.ret = pinned.ret

\* the call is repeated after the counter and the strategy have moved
C4_Witness ==
    /\ SameInputsAsPinned
    /\ lastCall.active = distributionStrategies.HYBRID
    /\ lastAssignedIndex >= 2
    /\ currentStrategy = distributionStrategies.ROUND_ROBIN
    /\ lastCall.ret \in MemberNames

(* ---------------------------------------------------------------------- *)
(* C5                                                                      *)
(* ---------------------------------------------------------------------- *)
\* the descriptor with the documented defaults filled in
Defaulted(task) ==
    [task EXCEPT !.priority = IF @ = Undefined THEN "medium" ELSE @,
                 !.premium = IF @ = NoPremium THEN 0 ELSE @]

\* C5: with a non-empty roster no strategy throws for a task whose type,
\* priority or premium is missing: the call returns a roster member, the
\* one it returns with premium 0 for a missing premium and with priority
\* "medium" for a missing priority.
C5_NoThrowOnMissingField ==
    (Called /\ roster # <<>>) =>
        /\ lastCall.ret \in MemberNames
        /\ lastCall.active # distributionStrategies.ROUND_ROBIN =>
              lastCall.ret = distributeTask(Defaulted(lastCall.task),
                                            lastCall.tasks,
                                            lastCall.strategy).ret

(* ---------------------------------------------------------------------- *)
(* C6                                                                      *)
(* ---------------------------------------------------------------------- *)
\* C6: Load Balanced returns the least-utilized member among those under
\* 100%, or of the whole roster when nobody is under 100%; a tie goes to
\* the member that comes first in roster order.
C6_LoadBalanced ==
    (CalledWith("load_balanced") /\ roster # <<>>) =>
        LET under == {m \in MemberNames : UnderCapacity(m, lastCall.tasks)}
        IN LeastUtilizedOf(lastCall.ret,
                           IF under # {} THEN under ELSE MemberNames,
                           lastCall.tasks)

\* nobody under capacity, two members tie for the lowest utilization and
\* the earlier one is returned
C6_Witness ==
    /\ CalledWith("load_balanced")
    /\ \A m \in MemberNames : ~UnderCapacity(m, lastCall.tasks)
    /\ \E m \in MemberNames :
          /\ Position(m) > Position(lastCall.ret)
          /\ FracEq(Utilization(m, lastCall.tasks),
                    Utilization(lastCall.ret, lastCall.tasks))

(* ---------------------------------------------------------------------- *)
(* C7                                                                      *)
(* ---------------------------------------------------------------------- *)
\* the six matching rules
IsMatch(name, task) ==
    LET sp == Member(name).specialties
    IN \/ includes(task.type, S_nsf) /\ "nsf" \in sp
       \/ includes(task.type, S_cancellation) /\ "cancellation" \in sp
       \/ includes(task.type, S_retention) /\ "retention" \in sp
       \/ includes(task.type, S_commercial) /\ "commercial" \in sp
       \/ includes(task.type, S_payment) /\ "payment-issues" \in sp
       \/ task.premium # NoPremium /\ task.premium >= 5000
            /\ "high-value" \in sp

AvailableSpecialists(task, tasks) ==
    {m \in MemberNames : IsMatch(m, task) /\ UnderCapacity(m, tasks)}

\* C7: Specialty First returns the least-utilized specialty match under
\* 100% (roster-order tie-break); with no match, or every match at or
\* above 100%, it returns what Load Balanced returns for the same inputs.
C7_SpecialtyFirst ==
    (CalledWith("specialty_first") /\ roster # <<>>
        /\ lastCall.task.type # NoType) =>
        LET avail == AvailableSpecialists(lastCall.task, lastCall.tasks)
        IN IF avail # {}
           THEN LeastUtilizedOf(lastCall.ret, avail, lastCall.tasks)
           ELSE lastCall.ret = loadBalancedAssignment(lastCall.task,
                                                      lastCall.tasks)

\* the worked example: A (nsf, 9 of 10 open), B (2 of 10 open), nsf task
C7_Witness ==
    /\ CalledWith("specialty_first")
    /\ roster = EXAMPLE_TEAM
    /\ OpenCount("A", lastCall.tasks) = 9
    /\ OpenCount("B", lastCall.tasks) = 2
    /\ lastCall.task.type = S_nsf
    /\ lastCall.ret = "A"

(* ---------------------------------------------------------------------- *)
(* C8                                                                      *)
(* ---------------------------------------------------------------------- *)
PriorityWeightedScore(name, task, tasks) ==
    Max(0, Max(0, Member(name).capacity - OpenCount(name, tasks))
           + (IF IsMatch(name, task) THEN 10 ELSE 0)
           + (IF task.priority = "high" THEN 5 ELSE 0)
           + (IF task.premium # NoPremium /\ task.premium >= 5000
              THEN 3 ELSE 0))

\* C8: Priority Weighted scores each member available slots + 10 for a
\* specialty match + 5 for priority high + 3 for premium >= 5000, floored
\* at 0, and returns the member with the highest score, the earliest in
\* roster order among equals.
C8_PriorityWeighted ==
    (CalledWith("priority_weighted") /\ roster # <<>>
        /\ lastCall.task.type # NoType) =>
        LET score(m) == PriorityWeightedScore(m, lastCall.task, lastCall.tasks)
        IN /\ \A m \in MemberNames : lastCall.scores[m] = score(m)
           /\ lastCall.ret \in MemberNames
           /\ \A m \in MemberNames :
                 \/ score(lastCall.ret) > score(m)
                 \/ /\ score(lastCall.ret) = score(m)
                    /\ Position(lastCall.ret) <= Position(m)

\* a high-priority task at the premium threshold, a specialist among the
\* members, and a tie for the best score won by the earlier member
C8_Witness ==
    /\ CalledWith("priority_weighted")
    /\ lastCall.task.priority = "high"
    /\ lastCall.task.premium = 5000
    /\ \E m \in MemberNames : IsMatch(m, lastCall.task)
    /\ \E m \in MemberNames :
          /\ Position(m) > Position(lastCall.ret)
          /\ lastCall.scores[m] = lastCall.scores[lastCall.ret]

(* ---------------------------------------------------------------------- *)
(* C9                                                                      *)
(* ---------------------------------------------------------------------- *)
\* the +30 of step 3: premium >= 5000 and "high-value" among the member's
\* declared specialties
HighValueBonusBySpecialty(name, task) ==
    IF task.premium # NoPremium /\ task.premium >= 5000
       /\ "high-value" \in Member(name).specialties
    THEN 30 ELSE 0

\* ten times the priority multiplier
PriorityTenths(priority) ==
    IF priority = "high" THEN 15 ELSE IF priority = "low" THEN 8 ELSE 10

\* the final score times 1000, as a fraction over the member's capacity,
\* for a given high-value bonus
FinalScore(bonus(_, _), name, task, tasks) ==
    LET cap == Member(name).capacity
        open == OpenCount(name, tasks)
        sum == Max(0, 100 * cap - 100 * open)
               + (IF IsMatch(name, task) THEN 50 * cap ELSE 0)
               + bonus(name, task) * cap
    IN Frac(sum * PriorityTenths(task.priority)
                * (IF 100 * open > 100 * cap THEN 5 ELSE 10)
                * (IF 100 * open > 150 * cap THEN 3 ELSE 10),
            cap)

\* the call recorded in lastCall scored every member as FinalScore does and
\* returned the best, the earliest in roster order among equals
ScoredAndChosenBy(bonus(_, _)) ==
    LET score(m) == FinalScore(bonus, m, lastCall.task, lastCall.tasks)
    IN /\ \A m \in MemberNames : FracEq(lastCall.scores[m], score(m))
       /\ lastCall.ret \in MemberNames
       /\ \A m \in MemberNames :
             \/ FracLt(score(m), score(lastCall.ret))
             \/ /\ FracEq(score(m), score(lastCall.ret))
                /\ Position(lastCall.ret) <= Position(m)

HybridCalled ==
    /\ CalledWith("hybrid")
    /\ roster # <<>>
    /\ lastCall.task.type # NoType

\* C9: Hybrid returns the member with the highest final score, the score
\* being max(0, 100 - utilization) + 50 for a specialty match + the
\* high-value bonus, times the priority multiplier (1.5, 1.0, 0.8, other
\* 1.0), times 0.5 above 100% and again 0.3 above 150%; among equal scores
\* the earliest member in roster order is returned.
C9_Hybrid ==
    HybridCalled => ScoredAndChosenBy(HighValueBonusBySpecialty)

(* ---------------------------------------------------------------------- *)
(* C10                                                                     *)
(* ---------------------------------------------------------------------- *)
\* C10: in Hybrid the +30 bonus goes to a member exactly when the premium
\* is at least 5000 and the member's declared specialties include
\* "high-value"; the member's name plays no part.
C10_BonusBySpecialty ==
    HybridCalled =>
        \A m \in MemberNames :
            highValueBonus(m, lastCall.task)
                = HighValueBonusBySpecialty(m, lastCall.task)

(* ---------------------------------------------------------------------- *)
(* C11                                                                     *)
(* ---------------------------------------------------------------------- *)
\* the rows with only the first n open rows of the member kept
KeepOpen(tasks, name, n) ==
    LET mine(i) == tasks[i].assignedTo = name /\ tasks[i].status = "open"
        rank(i) == Cardinality({j \in 1..i : mine(j)})
        kept == {i \in 1..Len(tasks) : ~mine(i) \/ rank(i) <= n}
        nth(k) == CHOOSE i \in kept : Cardinality({j \in kept : j <= i}) = k
    IN [k \in 1..Cardinality(kept) |-> tasks[nth(k)]]

\* the largest open-task count that keeps the member under 150%
JustUnder150(name) ==
    LET cap == Member(name).capacity
    IN CHOOSE n \in 0..(2 * cap) :
          100 * n < 150 * cap /\ 100 * (n + 1) >= 150 * cap

\* a member above 150% in the recorded hybrid call who, with the same
\* roster entry and task, would sit between 100% and 150% at JustUnder150
Crossed150(name) ==
    /\ HybridCalled
    /\ name \in MemberNames
    /\ FracGtInt(Utilization(name, lastCall.tasks), 150)
    /\ JustUnder150(name) > Member(name).capacity

\* the score the same member gets for the same task just under 150%
ScoreJustUnder150(name) ==
    hybridScores(lastCall.task,
                 KeepOpen(lastCall.tasks, name, JustUnder150(name)))[name]

HasBonus(name, task) ==
    IsMatch(name, task) \/ highValueBonus(name, task) > 0

\* C11 as stated: in Hybrid, with the same base and bonus factors and the
\* same task, the member above 150% has a strictly lower final score than
\* the identical member just under 150%.
C11_StrictlyLowerAbove150 ==
    \A name \in MemberNames :
        Crossed150(name) =>
            FracLt(lastCall.scores[name], ScoreJustUnder150(name))

\* C11 amended: the score above 150% is strictly lower when the member has
\* a specialty-match or high-value bonus for the task, and both scores are
\* 0 when it has none.
C11_LowerAbove150WithBonus ==
    \A name \in MemberNames :
        Crossed150(name) =>
            IF HasBonus(name, lastCall.task)
            THEN FracLt(lastCall.scores[name], ScoreJustUnder150(name))
            ELSE /\ lastCall.scores[name].num = 0
                 /\ ScoreJustUnder150(name).num = 0

\* Mark Vallejo at 23 of 15 with a commercial task: 50 x 0.15 against
\* 50 x 0.5 at 22 of 15
C11_Witness ==
    /\ roster = RETENTION_TEAM
    /\ Crossed150("Mark Vallejo")
    /\ lastCall.task.type = S_commercial
    /\ lastCall.task.priority = "medium"
    /\ lastCall.task.premium = 0
    /\ OpenCount("Mark Vallejo", lastCall.tasks) = 23
    /\ FracEq(lastCall.scores["Mark Vallejo"], Frac(7500, 1))
    /\ FracEq(ScoreJustUnder150("Mark Vallejo"), Frac(25000, 1))

(* ---------------------------------------------------------------------- *)
(* C12                                                                     *)
(* ---------------------------------------------------------------------- *)
MatcherReturned ==
    lastCall.op = "findSpecialtyMatches" /\ ~lastCall.threw

NoDuplicates(s) == \A i, j \in 1..Len(s) : s[i] = s[j] => i = j

\* C12: the specialty matcher returns, without duplicates, exactly the
\* roster members for which at least one of the six rules holds; the type
\* test is a substring test, so "nsf_followup" matches every member with
\* the specialty "nsf".
C12_ExactlyTheMatches ==
    MatcherReturned =>
        /\ Range(lastCall.ret) = {m \in MemberNames : IsMatch(m, lastCall.task)}
        /\ NoDuplicates(lastCall.ret)
        /\ lastCall.task.type = S_nsf_followup =>
              \A m \in MemberNames :
                  "nsf" \in Member(m).specialties => m \in Range(lastCall.ret)

C12_Witness ==
    /\ MatcherReturned
    /\ roster = RETENTION_TEAM
    /\ lastCall.task.type = S_nsf_followup
    /\ lastCall.task.premium = 0
    /\ lastCall.ret = <<"Monica Archuleta">>

(* ---------------------------------------------------------------------- *)
(* C13                                                                     *)
(* ---------------------------------------------------------------------- *)
AnalyzerCalled == lastCall.op = "analyzeCurrentWorkload"

\* C13: the analyzer has exactly one entry per roster member, and a member's
\* assigned count is the number of rows with status "open" assigned to that
\* member; rows of another status and rows assigned to somebody outside the
\* roster are in no member's count.
C13_AssignedIsOpenCount ==
    AnalyzerCalled =>
        /\ DOMAIN lastCall.ret = MemberNames
        /\ \A m \in MemberNames :
              /\ lastCall.ret[m].name = m
              /\ lastCall.ret[m].assigned = OpenCount(m, lastCall.tasks)

\* Mark Vallejo has two open rows and a completed one, and an open row
\* belongs to somebody who is not on the roster
C13_Witness ==
    /\ AnalyzerCalled
    /\ roster = RETENTION_TEAM
    /\ \E i \in 1..Len(lastCall.tasks) :
          /\ lastCall.tasks[i].assignedTo = "Mark Vallejo"
          /\ lastCall.tasks[i].status = "completed"
    /\ \E i \in 1..Len(lastCall.tasks) :
          /\ lastCall.tasks[i].assignedTo \notin MemberNames
          /\ lastCall.tasks[i].status = "open"
    /\ lastCall.ret["Mark Vallejo"].assigned = FewTasks
    /\ lastCall.ret["Monica Archuleta"].assigned = 0

(* ---------------------------------------------------------------------- *)
(* C14                                                                     *)
(* ---------------------------------------------------------------------- *)
\* C14: utilizationPercent is assigned / capacity * 100, never negative and
\* possibly above 100; available is max(0, capacity - assigned). With no
\* open task utilization is 0 and available is the capacity; with more
\* open tasks than capacity utilization is above 100 and available is 0.
C14_UtilizationAndAvailable ==
    AnalyzerCalled =>
        \A m \in MemberNames :
            LET e == lastCall.ret[m]
                n == OpenCount(m, lastCall.tasks)
                cap == Member(m).capacity
            IN /\ FracEq(e.utilizationPercent, Frac(100 * n, cap))
               /\ ~FracLtInt(e.utilizationPercent, 0)
               /\ e.available = (IF cap - n > 0 THEN cap - n ELSE 0)
               /\ n = 0 => /\ FracEq(e.utilizationPercent, Frac(0, 1))
                           /\ e.available = cap
               /\ n > cap => /\ FracGtInt(e.utilizationPercent, 100)
                             /\ e.available = 0

\* Mark Vallejo at 23 of 15 and Monica Archuleta idle
C14_Witness ==
    /\ AnalyzerCalled
    /\ roster = RETENTION_TEAM
    /\ OpenCount("Mark Vallejo", lastCall.tasks) = 23
    /\ FracEq(lastCall.ret["Mark Vallejo"].utilizationPercent, Frac(460, 3))
    /\ lastCall.ret["Mark Vallejo"].available = 0
    /\ OpenCount("Monica Archuleta", lastCall.tasks) = 0
    /\ lastCall.ret["Monica Archuleta"].available = 20

(* ---------------------------------------------------------------------- *)
(* Vocabulary of the redistribution properties                             *)
(* ---------------------------------------------------------------------- *)
RedistCalled == lastCall.op = "redistributeTasks"

\* the row of the snapshot with the given id
TaskById(id, tasks) ==
    tasks[CHOOSE i \in 1..Len(tasks) : tasks[i].id = id]

\* above and below the band around 100% in the snapshot as passed
Overloaded(name, tasks, maxImbalancePercent) ==
    FracGtInt(Utilization(name, tasks), 100 + maxImbalancePercent)

Underloaded(name, tasks, maxImbalancePercent) ==
    FracLtInt(Utilization(name, tasks), 100 - maxImbalancePercent)

\* the positions of the returned list that move a task away from the member
MovesFrom(name) ==
    {k \in 1..Len(lastCall.ret) : lastCall.ret[k].from = name}

(* ---------------------------------------------------------------------- *)
(* C15                                                                     *)
(* ---------------------------------------------------------------------- *)
\* C15: every returned entry moves a task away from a member whose
\* utilization in the snapshot is strictly above 100 + maxImbalancePercent
\* to a member whose utilization is strictly below 100 -
\* maxImbalancePercent, so to another member, and the task is an open row
\* assigned to the source in the snapshot.
C15_FromOverloadedToUnderloaded ==
    RedistCalled =>
        \A k \in 1..Len(lastCall.ret) :
            LET e == lastCall.ret[k]
            IN /\ e.from \in MemberNames
               /\ e.to \in MemberNames
               /\ Overloaded(e.from, lastCall.tasks,
                             lastCall.maxImbalancePercent)
               /\ Underloaded(e.to, lastCall.tasks,
                              lastCall.maxImbalancePercent)
               /\ e.from # e.to
               /\ \E i \in 1..Len(lastCall.tasks) :
                     /\ lastCall.tasks[i].id = e.taskId
                     /\ lastCall.tasks[i].status = "open"
                     /\ lastCall.tasks[i].assignedTo = e.from

\* Mark Vallejo at 23 of 15 gives tasks to the two others, both under 50%
C15_Witness ==
    /\ RedistCalled
    /\ roster = RETENTION_TEAM
    /\ lastCall.maxImbalancePercent = DefaultMaxImbalance
    /\ OpenCount("Mark Vallejo", lastCall.tasks) = 23
    /\ Len(lastCall.ret) = 4
    /\ {lastCall.ret[k].to : k \in 1..Len(lastCall.ret)}
          = {"Monica Archuleta", "Stephen Brown"}

(* ---------------------------------------------------------------------- *)
(* C16                                                                     *)
(* ---------------------------------------------------------------------- *)
\* C16: a member overloaded in the snapshot is the source of at most
\* floor(0.2 x its open count in the snapshot) entries, a member that is
\* not overloaded is the source of none; with one member at 20 of 10, one
\* at 10% and maxImbalancePercent 50 there are at most 4 entries, all from
\* the overloaded member.
C16_AtMostAFifth ==
    RedistCalled =>
        /\ \A m \in MemberNames :
              IF Overloaded(m, lastCall.tasks, lastCall.maxImbalancePercent)
              THEN 5 * Cardinality(MovesFrom(m)) <= OpenCount(m, lastCall.tasks)
              ELSE MovesFrom(m) = {}
        /\ ( /\ roster = EXAMPLE_TEAM
             /\ OpenCount("A", lastCall.tasks) = 20
             /\ OpenCount("B", lastCall.tasks) = 1
             /\ lastCall.maxImbalancePercent = 50 )
           => /\ Len(lastCall.ret) <= 4
              /\ \A k \in 1..Len(lastCall.ret) : lastCall.ret[k].from = "A"

\* the example: four entries, all from A to B
C16_Witness ==
    /\ RedistCalled
    /\ roster = EXAMPLE_TEAM
    /\ OpenCount("A", lastCall.tasks) = 20
    /\ OpenCount("B", lastCall.tasks) = 1
    /\ lastCall.maxImbalancePercent = 50
    /\ Len(lastCall.ret) = 4
    /\ \A k \in 1..4 : lastCall.ret[k].from = "A" /\ lastCall.ret[k].to = "B"

(* ---------------------------------------------------------------------- *)
(* C17                                                                     *)
(* ---------------------------------------------------------------------- *)
\* low before medium before high
PriorityRank(task) ==
    IF task.priority = "low" THEN 1
    ELSE IF task.priority = "medium" THEN 2 ELSE 3

\* the ids of the rows the returned list moves away from the member
MovedFrom(name) == {lastCall.ret[k].taskId : k \in MovesFrom(name)}

\* C17: the tasks of a member are proposed in ascending priority order: no
\* open row of the member is proposed while an open row of the same member
\* with a strictly lower priority is left unproposed, and the member's
\* entries appear in the output in non-decreasing priority order.
C17_LowestPriorityFirst ==
    RedistCalled =>
        \A m \in MemberNames :
            LET open == {i \in 1..Len(lastCall.tasks) :
                            /\ lastCall.tasks[i].assignedTo = m
                            /\ lastCall.tasks[i].status = "open"}
            IN /\ \A i, j \in open :
                     ( /\ lastCall.tasks[i].id \in MovedFrom(m)
                       /\ lastCall.tasks[j].id \notin MovedFrom(m) )
                     => PriorityRank(lastCall.tasks[j])
                          >= PriorityRank(lastCall.tasks[i])
               /\ \A k1, k2 \in MovesFrom(m) :
                     k1 < k2 =>
                         PriorityRank(TaskById(lastCall.ret[k1].taskId,
                                               lastCall.tasks))
                           <= PriorityRank(TaskById(lastCall.ret[k2].taskId,
                                                    lastCall.tasks))

\* Monica Archuleta at 31 of 20 has five low rows behind high and medium
\* ones: the six entries are the five low rows and then a medium one
C17_Witness ==
    /\ RedistCalled
    /\ roster = RETENTION_TEAM
    /\ OpenCount("Monica Archuleta", lastCall.tasks) = 31
    /\ OpenCount("Mark Vallejo", lastCall.tasks) = 0
    /\ OpenCount("Stephen Brown", lastCall.tasks) = 0
    /\ lastCall.maxImbalancePercent = DefaultMaxImbalance
    /\ Len(lastCall.ret) = 6
    /\ \A k \in 1..5 :
          TaskById(lastCall.ret[k].taskId, lastCall.tasks).priority = "low"
    /\ TaskById(lastCall.ret[6].taskId, lastCall.tasks).priority = "medium"
    /\ TaskById(201, lastCall.tasks).priority = "high"
    /\ 201 \notin MovedFrom("Monica Archuleta")

(* ---------------------------------------------------------------------- *)
(* C18                                                                     *)
(* ---------------------------------------------------------------------- *)
UnderloadedMembers ==
    {m \in MemberNames :
        Underloaded(m, lastCall.tasks, lastCall.maxImbalancePercent)}

\* C18: the target of a moved task is the first specialty match of the
\* task in the underloaded list, which is in ascending order of
\* utilization in the snapshot as passed (roster order among equals); with
\* no underloaded match it is the first member of that list; with an empty
\* list nothing is returned, and otherwise every selected task has its
\* entry.
C18_TargetIsFirstMatchOrFirst ==
    RedistCalled =>
        /\ \A k \in 1..Len(lastCall.ret) :
              LET e == lastCall.ret[k]
                  task == TaskById(e.taskId, lastCall.tasks)
                  specialists == {m \in UnderloadedMembers : IsMatch(m, task)}
              IN IF specialists # {}
                 THEN LeastUtilizedOf(e.to, specialists, lastCall.tasks)
                 ELSE LeastUtilizedOf(e.to, UnderloadedMembers, lastCall.tasks)
        /\ UnderloadedMembers = {} => lastCall.ret = <<>>
        /\ UnderloadedMembers # {} =>
              \A m \in MemberNames :
                  Overloaded(m, lastCall.tasks, lastCall.maxImbalancePercent)
                  => Cardinality(MovesFrom(m))
                       = OpenCount(m, lastCall.tasks) \div 5

\* Mark Vallejo at 23 of 15, Monica Archuleta idle, Stephen Brown at 2 of
\* 18: the cancellation row goes to Stephen Brown, second in the list, and
\* the recovery row without a match to Monica Archuleta, first in the list
C18_Witness ==
    /\ RedistCalled
    /\ roster = RETENTION_TEAM
    /\ lastCall.maxImbalancePercent = DefaultMaxImbalance
    /\ OpenCount("Mark Vallejo", lastCall.tasks) = 23
    /\ OpenCount("Monica Archuleta", lastCall.tasks) = 0
    /\ OpenCount("Stephen Brown", lastCall.tasks) = FewTasks
    /\ \E k \in 1..Len(lastCall.ret) :
          /\ lastCall.ret[k].taskId = 110
          /\ TaskById(110, lastCall.tasks).type = S_cancellation
          /\ lastCall.ret[k].to = "Stephen Brown"
    /\ \E k \in 1..Len(lastCall.ret) :
          /\ lastCall.ret[k].taskId = 117
          /\ TaskById(117, lastCall.tasks).type = S_recovery
          /\ TaskById(117, lastCall.tasks).premium = 0
          /\ lastCall.ret[k].to = "Monica Archuleta"

(* ---------------------------------------------------------------------- *)
(* C19                                                                     *)
(* ---------------------------------------------------------------------- *)
MovesTo(name) ==
    {k \in 1..Len(lastCall.ret) : lastCall.ret[k].to = name}

\* the open count of the member once the first n entries are applied
CountAfter(name, n) ==
    OpenCount(name, lastCall.tasks)
      - Cardinality({k \in MovesFrom(name) : k <= n})
      + Cardinality({k \in MovesTo(name) : k <= n})

\* every entry takes one from the in-memory count of its source and adds
\* one to that of its target
InMemoryCountsUpdated ==
    RedistCalled =>
        \A m \in MemberNames :
            lastCall.workloadAnalysis[m].assigned
              = CountAfter(m, Len(lastCall.ret))

\* C19: within one call each proposed move decrements the in-memory count
\* of its source and increments that of its target, and the updated counts
\* affect the targets of the tasks processed later: a member that the
\* earlier moves of the call have brought out of the underloaded band is
\* not selected again.
C19_UpdatedCountsAffectTargets ==
    RedistCalled =>
        /\ InMemoryCountsUpdated
        /\ \A k \in 1..Len(lastCall.ret) :
              LET to == lastCall.ret[k].to
              IN FracLtInt(Frac(100 * CountAfter(to, k - 1),
                                Member(to).capacity),
                           100 - lastCall.maxImbalancePercent)

(* ---------------------------------------------------------------------- *)
(* C20                                                                     *)
(* ---------------------------------------------------------------------- *)
\* utilization of the member once every returned move is applied
UtilizationAfter(name) ==
    Frac(100 * CountAfter(name, Len(lastCall.ret)), Member(name).capacity)

\* C20: applying all the moves of one call to the snapshot gives a snapshot
\* whose highest utilization over the roster is not above the highest
\* utilization before the moves.
C20_MaxUtilizationNotHigher ==
    RedistCalled =>
        \A m \in MemberNames :
            \E highest \in MemberNames :
                FracLe(UtilizationAfter(m),
                       Utilization(highest, lastCall.tasks))

(* ---------------------------------------------------------------------- *)
(* C21                                                                     *)
(* ---------------------------------------------------------------------- *)
ReportCalled == lastCall.op = "generateDistributionReport"

\* a step that is a call of redistributeTasks or of the report
ProposalStep ==
    /\ lastCall' # lastCall
    /\ lastCall'.op \in {"redistributeTasks", "generateDistributionReport"}

\* C21: redistributeTasks and generateDistributionReport only propose
\* moves: the caller's list has the same rows in the same order after the
\* call, with assignedTo and status as before, and the roster is unchanged.
C21_ProposeOnly ==
    [][ProposalStep => /\ existingTasks' = existingTasks
                       /\ roster' = roster]_vars

\* a report with four suggestions for Mark Vallejo's rows, which start with
\* a high-priority row and are still all assigned to Mark Vallejo
C21_Witness ==
    /\ ReportCalled
    /\ roster = RETENTION_TEAM
    /\ Len(lastCall.ret.redistributionSuggestions) = 4
    /\ \A k \in 1..4 :
          /\ lastCall.ret.redistributionSuggestions[k].from = "Mark Vallejo"
          /\ TaskById(lastCall.ret.redistributionSuggestions[k].taskId,
                      existingTasks).assignedTo = "Mark Vallejo"
    /\ existingTasks[1].priority = "high"
    /\ existingTasks = lastCall.tasks
    /\ OpenCount("Mark Vallejo", existingTasks) = 23

(* ---------------------------------------------------------------------- *)
(* C22                                                                     *)
(* ---------------------------------------------------------------------- *)
RECURSIVE Product(_)
Product(s) == IF s = <<>> THEN 1 ELSE Head(s) * Product(Tail(s))

\* the fraction in lowest terms
Normal(f) ==
    Frac(f.num \div GCD(f.num, f.den), f.den \div GCD(f.num, f.den))

\* the open count of the member at position i over its capacity, as an
\* integer over the product of the capacities
LoadOverProduct(i, tasks) ==
    OpenCount(roster[i].name, tasks)
      * (Product([k \in 1..Len(roster) |-> roster[k].capacity])
           \div roster[i].capacity)

RECURSIVE SumOfSquaredDifferences(_, _)
SumOfSquaredDifferences(pairs, tasks) ==
    IF pairs = {} THEN 0
    ELSE LET pr == CHOOSE x \in pairs : TRUE
             diff == LoadOverProduct(pr[1], tasks)
                       - LoadOverProduct(pr[2], tasks)
         IN diff * diff + SumOfSquaredDifferences(pairs \ {pr}, tasks)

\* the population variance of utilization / 100 over the roster: the sum of
\* the squared pairwise differences over the square of the count
PopulationVariance(tasks) ==
    LET n == Len(roster)
        p == Product([k \in 1..n |-> roster[k].capacity])
        pairs == {pr \in (1..n) \X (1..n) : pr[1] < pr[2]}
    IN Frac(SumOfSquaredDifferences(pairs, tasks), n * n * p * p)

SameUtilization(tasks) ==
    \A a, b \in MemberNames :
        FracEq(Utilization(a, tasks), Utilization(b, tasks))

\* the score is a number, 100 - s floored at 0, with s / 100 the root of
\* the population variance of utilization / 100
BalanceScoreAsStated ==
    LET score == lastCall.ret.teamSummary.balanceScore
        variance == PopulationVariance(lastCall.tasks)
    IN /\ ~score.nan
       /\ Normal(score.deviationSquared) = Normal(variance)
       /\ score.zero = (variance.num >= variance.den)
       /\ score.zero \/ ( /\ score.deviationSquared.num >= 0
                          /\ FracLtInt(score.deviationSquared, 1) )
       /\ SameUtilization(lastCall.tasks)
            => ~score.zero /\ score.deviationSquared.num = 0
       /\ ( /\ Len(roster) = 2
            /\ OpenCount(roster[1].name, lastCall.tasks) = 0
            /\ OpenCount(roster[2].name, lastCall.tasks) = roster[2].capacity )
          => ~score.zero /\ FracEq(score.deviationSquared, Frac(1, 4))

RecommendationsFor(name) ==
    {k \in 1..Len(lastCall.ret.recommendations) :
        lastCall.ret.recommendations[k].member = name}

Recommended(name, type, priority) ==
    \E k \in RecommendationsFor(name) :
        /\ lastCall.ret.recommendations[k].type = type
        /\ lastCall.ret.recommendations[k].priority = priority

\* C23: at most one recommendation per member: overload_critical with
\* priority high exactly above 150%, overload_warning with priority medium
\* exactly above 100% and up to 150%, underutilized with priority low
\* exactly below 50%, and none from 50% to 100%.
C23_OneRecommendationPerBand ==
    ReportCalled =>
        /\ \A k \in 1..Len(lastCall.ret.recommendations) :
              lastCall.ret.recommendations[k].member \in MemberNames
        /\ \A m \in MemberNames :
              LET u == Utilization(m, lastCall.tasks)
              IN /\ Cardinality(RecommendationsFor(m)) <= 1
                 /\ Recommended(m, "overload_critical", "high")
                      <=> FracGtInt(u, 150)
                 /\ Recommended(m, "overload_warning", "medium")
                      <=> (FracGtInt(u, 100) /\ ~FracGtInt(u, 150))
                 /\ Recommended(m, "underutilized", "low")
                      <=> FracLtInt(u, 50)
                 /\ (RecommendationsFor(m) = {})
                      <=> (~FracLtInt(u, 50) /\ ~FracGtInt(u, 100))

\* Mark Vallejo at 150%, Dana Ortiz at 200%, Eli Park at 100%: a warning,
\* a critical and nothing
C23_Witness ==
    /\ ReportCalled
    /\ roster = SMALL_TEAM
    /\ OpenCount("Mark Vallejo", lastCall.tasks) = 3
    /\ OpenCount("Dana Ortiz", lastCall.tasks) = 4
    /\ OpenCount("Eli Park", lastCall.tasks) = 1
    /\ Len(lastCall.ret.recommendations) = 2
    /\ Recommended("Mark Vallejo", "overload_warning", "medium")
    /\ Recommended("Dana Ortiz", "overload_critical", "high")

(* ---------------------------------------------------------------------- *)
(* C24                                                                     *)
(* ---------------------------------------------------------------------- *)
AssignCalled == lastCall.op = "assignTask"
FallbackCalled == lastCall.op = "fallbackAssignTask"

\* the positions of the members whose specialties contain the type or, from
\* a premium of 5000, "high-value"
FallbackCandidates(taskType, premium) ==
    {i \in 1..Len(roster) :
        \/ \E s \in roster[i].specialties : specialtyText(s) = taskType
        \/ premium >= 5000 /\ "high-value" \in roster[i].specialties}

\* the first candidate in roster order, otherwise the first member
StatedFallback(taskType, premium) ==
    LET candidates == FallbackCandidates(taskType, premium)
    IN IF candidates = {} THEN roster[1].name
       ELSE roster[CHOOSE i \in candidates :
                       \A j \in candidates : i <= j].name

\* the distribution service throws for the call: distributeTask with the
\* current strategy on the call's task and rows
DistributionThrows ==
    distributeTask([type |-> lastCall.taskType, premium |-> lastCall.premium,
                    priority |-> "medium"], lastCall.tasks,
                   lastCall.active).ret = TypeError

\* the answer is the roster member the fallback is stated to give
AnswerIsStatedFallback ==
    /\ lastCall.ret \in MemberNames
    /\ lastCall.ret = StatedFallback(lastCall.taskType, lastCall.premium)

RoundRobinCompletion ==
    /\ lastCall' # lastCall
    /\ lastCall'.op = "assignTask"
    /\ lastCall'.active = distributionStrategies.ROUND_ROBIN

\* the members of the round-robin calls k+1 .. k+n, in completion order,
\* are n different members
WindowDistinct(k, n) ==
    \A i, j \in (k + 1)..(k + n) :
        /\ rrHistory[i] \in MemberNames
        /\ i # j => rrHistory[i] # rrHistory[j]

\* C26: concurrent round-robin callers on the shared service each observe
\* a value of lastAssignedIndex no other call observes (each call reads the
\* counter and leaves it one higher, and the counter never decreases), and
\* in completion order any |roster| consecutive round-robin calls return
\* |roster| distinct members.
C26_DistinctUnderConcurrency ==
    /\ [][lastAssignedIndex' >= lastAssignedIndex]_vars
    /\ [][RoundRobinCompletion =>
             /\ lastCall'.observed = lastAssignedIndex
             /\ lastAssignedIndex' = lastCall'.observed + 1]_vars
    /\ [](roster # <<>> =>
             \A k \in 0..(Len(rrHistory) - Len(roster)) :
                 WindowDistinct(k, Len(roster)))

\* both callers were waiting for their rows when the strategy was
\* round-robin; caller2 completes fourth while caller1 still waits
C26_Witness ==
    /\ roster = RETENTION_TEAM
    /\ lastCall.op = "assignTask"
    /\ lastCall.caller = "caller2"
    /\ inFlight["caller1"] # Idle
    /\ lastCall.observed = 3
    /\ lastAssignedIndex = 4
    /\ rrHistory = <<"Mark Vallejo", "Monica Archuleta", "Stephen Brown",
                     "Mark Vallejo">>

(* ---------------------------------------------------------------------- *)
(* C25                                                                     *)
(* ---------------------------------------------------------------------- *)
\* the step is a distributeTask call that ran round-robin (every step of
\* the service records its call)
RoundRobinStep ==
    /\ lastCall'.op = "distributeTask"
    /\ lastCall'.active = distributionStrategies.ROUND_ROBIN

\* a distributeTask call with another strategy, or a call of the analyzer,
\* of redistributeTasks or of the report
OtherCallStep ==
    \/ lastCall'.op \in {"analyzeCurrentWorkload", "redistributeTasks",
                          "generateDistributionReport"}
    \/ /\ lastCall'.op = "distributeTask"
       /\ lastCall'.active # distributionStrategies.ROUND_ROBIN

\* C25: a round-robin call increases lastAssignedIndex by exactly 1 and
\* changes nothing else; a call with any other strategy, the analyzer,
\* redistributeTasks or the report leaves lastAssignedIndex and
\* currentStrategy unchanged, so calls in between do not alter the rotation.
C25_OnlyRoundRobinCounts ==
    /\ [][RoundRobinStep =>
             /\ lastAssignedIndex' = lastAssignedIndex + 1
             /\ UNCHANGED <<currentStrategy, roster, existingTasks,
                            notificationHistory>>]_vars
    /\ [][OtherCallStep =>
             UNCHANGED <<lastAssignedIndex, currentStrategy>>]_vars
    /\ [](roster # <<>> =>
             \A k \in 1..Len(rrHistory) :
                 rrHistory[k] = roster[((k - 1) % Len(roster)) + 1].name)

\* two round-robin calls, then a redistribution that proposes moves, with
\* the strategy back at hybrid: the counter stays at 2
C25_Witness ==
    /\ roster = RETENTION_TEAM
    /\ lastCall.op = "redistributeTasks"
    /\ Len(lastCall.ret) > 0
    /\ currentStrategy = distributionStrategies.HYBRID
    /\ lastAssignedIndex = 2
    /\ rrHistory = <<"Mark Vallejo", "Monica Archuleta">>

(* ---------------------------------------------------------------------- *)
(* C27                                                                     *)
(* ---------------------------------------------------------------------- *)
FiveStrategies ==
    {"round_robin", "load_balanced", "specialty_first", "priority_weighted",
     "hybrid"}

\* the step is a call of setDistributionStrategy
SetStrategyStep ==
    /\ pinned' = pinned
    /\ lastCall'.op = "setDistributionStrategy"

\* the step is a call of distributeTask
DistributeStep ==
    /\ pinned' = pinned
    /\ lastCall'.op = "distributeTask"

\* C27: currentStrategy is always one of the five strategy values and is
\* "hybrid" initially; setDistributionStrategy with one of the five returns
\* true and sets it, with anything else returns false and leaves it
\* unchanged; distributeTask without a strategy argument uses
\* currentStrategy, and an explicit strategy applies to that call only.
C27_StrategyValue ==
    /\ currentStrategy = "hybrid"
    /\ [](currentStrategy \in FiveStrategies)
    /\ [][SetStrategyStep =>
             IF lastCall'.strategy \in FiveStrategies
             THEN lastCall'.ret = TRUE
                  /\ currentStrategy' = lastCall'.strategy
             ELSE lastCall'.ret = FALSE
                  /\ currentStrategy' = currentStrategy]_vars
    /\ [][DistributeStep =>
             /\ currentStrategy' = currentStrategy
             /\ lastCall'.active = IF lastCall'.strategy = Null
                                   THEN currentStrategy
                                   ELSE lastCall'.strategy
             /\ lastCall'.strategy = Null =>
                    lastCall'.ret = distributeTask(lastCall'.task,
                                                   existingTasks,
                                                   currentStrategy).ret]_vars

\* load_balanced was set, a call with an explicit round_robin was made, and
\* "fastest" is refused: the strategy is still load_balanced
C27_Witness ==
    /\ lastCall.op = "setDistributionStrategy"
    /\ lastCall.strategy = "fastest"
    /\ lastCall.ret = FALSE
    /\ currentStrategy = "load_balanced"
    /\ lastAssignedIndex = 1

(* ---------------------------------------------------------------------- *)
(* C28                                                                     *)
(* ---------------------------------------------------------------------- *)
OverloadedIn(name, tasks) ==
    FracGtInt(Utilization(name, tasks), 100 + DefaultMaxImbalance)

UnderloadedIn(name, tasks) ==
    FracLtInt(Utilization(name, tasks), 100 - DefaultMaxImbalance)

\* redistributeTasks with the default threshold proposes nothing
Balanced ==
    redistributeTasks(existingTasks, DefaultMaxImbalance).redistributions
        = <<>>

\* a measure of what rebalancing still has to do: the number of
\* underloaded members, weighted above any number of tasks, plus the open
\* tasks of the overloaded members
Rank(tasks) ==
    Cardinality({name \in MemberNames : UnderloadedIn(name, tasks)})
        * (Len(tasks) + 1)
    + Sum([i \in 1..Len(roster) |->
              IF OverloadedIn(roster[i].name, tasks)
              THEN OpenCount(roster[i].name, tasks) ELSE 0])

AnyPriority == {"high", "medium", "low", "unknown", Undefined}

\* what the strategy of the call selects for the call's task and rows when
\* the task carries the given priority
SelectionWithPriority(priority) ==
    LET task == [lastCall.task EXCEPT !.priority = priority]
    IN IF lastCall.active = distributionStrategies.HYBRID
       THEN hybridAssignment(task, lastCall.tasks)
       ELSE priorityWeightedAssignment(task, lastCall.tasks)

OverCapacitySelected ==
    /\ FracGtInt(Utilization(lastCall.ret, lastCall.tasks), 100)
    /\ \E other \in MemberNames : UnderCapacity(other, lastCall.tasks)

\* C30 as stated: Hybrid never assigns a task to a member whose
\* utilization is above 100% while at least one roster member has a
\* utilization below 100%.
C30_NeverOverCapacity == HybridCalled => ~OverCapacitySelected

\* C30 amended: Hybrid assigns a task to a member above 100% while another
\* member is below 100% only when the selected member has a specialty-match
\* or high-value bonus for the task; without a bonus a member above 100%
\* scores 0 and is not selected.
C30_OverCapacityOnlyWithBonus ==
    HybridCalled /\ OverCapacitySelected
        => HasBonus(lastCall.ret, lastCall.task)

\* A at 11 of 10 is the nsf specialist and scores 50 * 0.5 = 25 times the
\* multiplier; B at 9 of 10 scores 10 times the multiplier: A is selected
C30_Witness ==
    /\ HybridCalled
    /\ roster = EXAMPLE_TEAM
    /\ lastCall.task.type = S_nsf
    /\ OpenCount("A", lastCall.tasks) = 11
    /\ OpenCount("B", lastCall.tasks) = 9
    /\ lastCall.ret = "A"
    /\ OverCapacitySelected

====
